---- MODULE Spec2Model ----
(***************************************************************************)
(* PyNifly importer: shape placement (calc_obj_transform), armature        *)
(* matching (find_compatible_arma) and skinning (set_parent_arma).         *)
(*                                                                         *)
(* Transforms are rigid motions of the y-z plane of the nif: a rotation    *)
(* about the x axis by a multiple of 90 degrees plus a translation, the    *)
(* translation counted in lattice steps of 1/Unit nif units.  The group is *)
(* not commutative, so the order of the factors of a product matters.      *)
(***************************************************************************)
EXTENDS Integers, Sequences, FiniteSets, TLC

\* ---------------------------------------------------------------- bounds
\* lattice steps per nif length unit
Unit == 4
\* shapes in one nif file
MaxShapes == 2

\* ------------------------------------------------------------ transforms
XF(r, y, z) == [rot |-> r, y |-> y, z |-> z]

\* Matrix.Identity(4)
Identity == XF(0, 0, 0)

\* Python's None where a Matrix is expected
NoneXf == XF(-1, 0, 0)

\* the value standing for a TypeError raised by "Matrix @ None"
TypeErrorXf == XF(-2, 0, 0)

\* translate(0, 0, z), z in nif units, plus q lattice steps
Translate(z, q) == XF(0, 0, z * Unit + q)

\* the same, turned by r quarter turns about x
Turned(r, z) == XF(r, 0, z * Unit)

Abs(n) == IF n < 0 THEN -n ELSE n

RotY(r, y, z) == CASE r = 0 -> y [] r = 1 -> -z [] r = 2 -> -y [] r = 3 -> z
RotZ(r, y, z) == CASE r = 0 -> z [] r = 1 -> y [] r = 2 -> -z [] r = 3 -> -y

\* a @ b
MatMul(a, b) ==
    XF((a.rot + b.rot) % 4,
       a.y + RotY(a.rot, b.y, b.z),
       a.z + RotZ(a.rot, b.y, b.z))

\* a.inverted()
inverted(a) ==
    LET r == (4 - a.rot) % 4
    IN XF(r, -RotY(r, a.y, a.z), -RotZ(r, a.y, a.z))

\* abs(a - b) < epsilon, epsilon = epsN/epsD nif units, a and b in lattice steps
NearEqual(a, b, epsN, epsD) == Abs(a - b) * epsD < epsN * Unit

\* MatNearEqual(m1, m2, epsilon): every matrix element within epsilon.  The
\* rotation block of a quarter turn has the entries 0, 1, -1, so that two
\* different rotations differ by at least 1 in some element.
MatNearEqual(m1, m2, epsN, epsD) ==
    /\ (m1.rot = m2.rot \/ NearEqual(0, Unit, epsN, epsD))
    /\ NearEqual(m1.y, m2.y, epsN, epsD)
    /\ NearEqual(m1.z, m2.z, epsN, epsD)

\* MatNearEqual's default epsilon, 0.001
MatNearEqualDef(m1, m2) == MatNearEqual(m1, m2, 1, 1000)

\* apply_scale_xf(xf, sf): the scale factor goes on the translation, the
\* rotation and the matrix's own scale component are kept
apply_scale_xf(xf, sf) == XF(xf.rot, xf.y * sf, xf.z * sf)

\* apply_scale_transl that puts the factor on the rotation's quarter turns too
apply_scale_transl_all(xf, sfN, sfD) ==
    XF((xf.rot * sfN) % 4, (xf.y * sfN) \div sfD, (xf.z * sfN) \div sfD)

\* apply_scale_transl(xf, sfN/sfD)
apply_scale_transl(xf, sfN, sfD) ==
    XF(xf.rot, (xf.y * sfN) \div sfD, (xf.z * sfN) \div sfD)

\* ------------------------------------------------------------------ state
VARIABLES
    create_bones,        \* NifImporter.create_bones (extend missing bones)
    rename_bones,        \* NifImporter.rename_bones
    reference_skel,      \* NifImporter.reference_skel
    scale,               \* NifImporter.scale
    nif,                 \* NifImporter.nif, the file being imported
    objects,             \* the armature objects of the scene, by creation order
    armature,            \* NifImporter.armature: index into objects, 0 = None
    imported_armatures,  \* NifImporter.imported_armatures: indices into objects
    loaded_meshes,       \* NifImporter.loaded_meshes: the mesh objects, each with its NiShape,
                         \* its matrix_world and its parent armature (0 = none)
    warnings,            \* NifImporter.warnings
    pc,                  \* position in import_nif
    cur,                 \* index in loaded_meshes of the object being skinned
    target,              \* (target_arma, target_xf) of the last find_compatible_arma
    bones_to_parent,     \* connect_armature: the growing list of bones to visit
    idx,                 \* connect_armature: the index i into bones_to_parent
    todo,                \* the bone names a "for" loop over bones has still to visit
    new_bone_list,       \* new_bones: the (nif name, Blender name) pairs a batch collects
    skin,                \* set_parent_arma: skin_xf and ref_compat
    pose_list,           \* the bonelist the last set_bone_poses call was given
    objects_created,     \* NifImporter.objects_created: the nodes imported as empties
    loose,               \* import_loose_ninodes: arma (0 = None) and original_bones
    history,             \* bone creations and pose writes of the running batch, in order
    preserve_hierarchy_opt,  \* NifExporter.preserve_hierarchy
    export_pose,         \* NifExporter.export_pose
    writtenbones,        \* NifExporter.writtenbones: Blender bone name -> name in the nif
    nodes_written,       \* the nodes added to the exported nif, in the order written
    bones_to_write,      \* the bones_to_write the running export passes to write_bone
    bone_xforms,         \* the result of the last get_bone_xforms
    skin_to_bone_written, \* the skin-to-bone transforms export_skin set on the shape
    skel_xml,            \* ExportSkel: the hkaSkeleton element written by write_skel
    scaled               \* the last call of apply_scale_transl: argument, factor, result

\* the variables of the Rig Builder's batch operations
rigvars == <<bones_to_parent, idx, todo, new_bone_list, skin, pose_list, objects_created,
             loose, history>>

\* the variables of the exporters and of the transform helpers
expvars == <<preserve_hierarchy_opt, export_pose, writtenbones, nodes_written, bones_to_write,
             bone_xforms, skin_to_bone_written, skel_xml, scaled>>

vars == <<create_bones, rename_bones, reference_skel, scale, nif, objects, armature,
          imported_armatures, loaded_meshes, warnings, pc, cur, target, rigvars, expvars>>

\* ------------------------------------------------------------- nif data
Spine == "Spine"
Neck == "Neck"
RootName == "Scene Root"

\* a node of a nif file: (name, parent name, global transform, block type)
Node(parent, xf) == [parent |-> parent, xform_to_global |-> xf, blockname |-> "NiNode"]

\* a nif whose Spine and Neck nodes stand at sp and nk
NifFile(game, sp, nk) ==
    [game |-> game, rootName |-> RootName,
     nodes |-> [n \in {RootName, Spine, Neck} |->
                  CASE n = RootName -> Node("", Identity)
                    [] n = Spine -> Node(RootName, sp)
                    [] n = Neck -> Node(Spine, nk)]]

\* no reference skeleton (reference_skel is None)
NoSkel == [present |-> FALSE, rootName |-> RootName, nodes |-> <<>>]

\* the reference skeleton of the end-to-end scenario: Spine at translate(0,0,10),
\* Neck at translate(0,0,15)
RefSkel ==
    [present |-> TRUE, rootName |-> RootName,
     nodes |-> [n \in {RootName, Spine, Neck} |->
                  CASE n = RootName -> Node("", Identity)
                    [] n = Spine -> Node(RootName, Translate(10, 0))
                    [] n = Neck -> Node(Spine, Translate(15, 0))]]

\* a reference skeleton that knows the Spine only
RefSkelSpine ==
    [present |-> TRUE, rootName |-> RootName,
     nodes |-> [n \in {RootName, Spine} |->
                  IF n = RootName THEN Node("", Identity)
                  ELSE Node(RootName, Translate(10, 0))]]

\* a skinned NiShape: bone_names in file order, the bones with vertex weights
\* (get_used_bones), the bind position of each bone (the skin-to-bone
\* transform is its inverse) and the optional global-to-skin transform
SkinnedShape(names, used, bind, gts) ==
    [has_skin_instance |-> TRUE,
     transform |-> Identity,
     bone_names |-> names,
     used_bones |-> used,
     skin_to_bone |-> [i \in 1..Len(names) |-> inverted(bind[i])],
     has_global_to_skin |-> gts # NoneXf,
     global_to_skin |-> gts]

\* a shape with no skin instance, placed by its own transform
StaticShape(xf) ==
    [has_skin_instance |-> FALSE,
     transform |-> xf,
     bone_names |-> <<>>,
     used_bones |-> <<>>,
     skin_to_bone |-> <<>>,
     has_global_to_skin |-> FALSE,
     global_to_skin |-> NoneXf]

Range(s) == {s[i] : i \in 1..Len(s)}

\* position of bone b in shape.bone_names
BoneIndex(shape, b) == CHOOSE i \in 1..Len(shape.bone_names) : shape.bone_names[i] = b

\* shape.get_shape_skin_to_bone(b).as_matrix()
get_shape_skin_to_bone(shape, b) == shape.skin_to_bone[BoneIndex(shape, b)]

\* bind_position(shape, b): the inverse of the skin-to-bone transform
bind_position(shape, b) == inverted(get_shape_skin_to_bone(shape, b))

\* pose_transform(shape, b): from the bone's pose position in the nif to its
\* bind position in the shape
pose_transform(shape, b) ==
    inverted(MatMul(nif.nodes[b].xform_to_global, get_shape_skin_to_bone(shape, b)))

\* ------------------------------------------------- calc_obj_transform
\* RefOffsetLoop without the test that ends the loop on a differing offset
RECURSIVE RefOffsetLoopNoBreak(_, _, _, _, _)
RefOffsetLoopNoBreak(the_shape, xf, bs, offset_xf, offset_consistent) ==
    IF bs = <<>>
    THEN [offset_xf |-> offset_xf, offset_consistent |-> offset_consistent]
    ELSE LET bn == Head(bs)
             skel_bone_xf == reference_skel.nodes[bn].xform_to_global
             bindinshape == MatMul(xf, bind_position(the_shape, bn))
             this_offset == MatMul(skel_bone_xf, inverted(bindinshape))
         IN IF bn \notin DOMAIN reference_skel.nodes
            THEN RefOffsetLoopNoBreak(the_shape, xf, Tail(bs), offset_xf, offset_consistent)
            ELSE IF offset_xf = NoneXf
            THEN RefOffsetLoopNoBreak(the_shape, xf, Tail(bs), this_offset, TRUE)
            ELSE RefOffsetLoopNoBreak(the_shape, xf, Tail(bs), offset_xf, offset_consistent)

\* the loop over the used bones that compares each bone's offset from the
\* reference skeleton with the first one found; bs = the bones still to visit
RECURSIVE RefOffsetLoop(_, _, _, _, _)
RefOffsetLoop(the_shape, xf, bs, offset_xf, offset_consistent) ==
    IF bs = <<>>
    THEN [offset_xf |-> offset_xf, offset_consistent |-> offset_consistent]
    ELSE LET bn == Head(bs)
             skel_bone_xf == reference_skel.nodes[bn].xform_to_global
             bindinshape == MatMul(xf, bind_position(the_shape, bn))
             this_offset == MatMul(skel_bone_xf, inverted(bindinshape))
         IN IF bn \notin DOMAIN reference_skel.nodes
            THEN RefOffsetLoop(the_shape, xf, Tail(bs), offset_xf, offset_consistent)
            ELSE IF offset_xf = NoneXf
            THEN RefOffsetLoop(the_shape, xf, Tail(bs), this_offset, TRUE)
            ELSE IF ~MatNearEqualDef(this_offset, offset_xf)
            THEN [offset_xf |-> offset_xf, offset_consistent |-> FALSE]
            ELSE RefOffsetLoop(the_shape, xf, Tail(bs), offset_xf, offset_consistent)

\* PoseLoop comparing with MatNearEqual's default epsilon instead of 0.5
RECURSIVE PoseLoopDefaultEps(_, _, _)
PoseLoopDefaultEps(the_shape, bs, pose_xf) ==
    IF bs = <<>>
    THEN [pose_xf |-> pose_xf, same |-> TRUE]
    ELSE LET bone_xf == pose_transform(the_shape, Head(bs))
         IN IF pose_xf # NoneXf
            THEN IF ~MatNearEqualDef(pose_xf, bone_xf)
                 THEN [pose_xf |-> pose_xf, same |-> FALSE]
                 ELSE PoseLoopDefaultEps(the_shape, Tail(bs), pose_xf)
            ELSE PoseLoopDefaultEps(the_shape, Tail(bs), bone_xf)

\* the loop over the used bones that compares each bone's pose transform with
\* the first bone's, epsilon 0.5
RECURSIVE PoseLoop(_, _, _)
PoseLoop(the_shape, bs, pose_xf) ==
    IF bs = <<>>
    THEN [pose_xf |-> pose_xf, same |-> TRUE]
    ELSE LET bone_xf == pose_transform(the_shape, Head(bs))
         IN IF pose_xf # NoneXf
            THEN IF ~MatNearEqual(pose_xf, bone_xf, 1, 2)
                 THEN [pose_xf |-> pose_xf, same |-> FALSE]
                 ELSE PoseLoop(the_shape, Tail(bs), pose_xf)
            ELSE PoseLoop(the_shape, Tail(bs), bone_xf)

\* xf and offset_consistent after the global-to-skin step
GlobalToSkinStep(the_shape) ==
    IF the_shape.has_global_to_skin
    THEN [xf |-> inverted(the_shape.global_to_skin), offset_consistent |-> TRUE]
    ELSE [xf |-> Identity, offset_consistent |-> FALSE]

\* ReferenceStep that finds the consistent offset but leaves xf as it was
ReferenceStepNotApplied(the_shape) ==
    LET s1 == GlobalToSkinStep(the_shape)
        loop == RefOffsetLoop(the_shape, s1.xf, the_shape.used_bones,
                              NoneXf, s1.offset_consistent)
    IN IF create_bones /\ reference_skel.present
       THEN [xf |-> s1.xf, offset_consistent |-> loop.offset_consistent]
       ELSE s1

\* xf and offset_consistent after the reference-skeleton step
ReferenceStep(the_shape) ==
    LET s1 == GlobalToSkinStep(the_shape)
        loop == RefOffsetLoop(the_shape, s1.xf, the_shape.used_bones,
                              NoneXf, s1.offset_consistent)
    IN IF create_bones /\ reference_skel.present
       THEN [xf |-> IF loop.offset_consistent /\ loop.offset_xf # NoneXf
                    THEN MatMul(s1.xf, loop.offset_xf)
                    ELSE s1.xf,
             offset_consistent |-> loop.offset_consistent]
       ELSE s1

\* PoseStep that uses the first pose transform whether or not the others agree
PoseStepAlways(the_shape) ==
    LET s2 == ReferenceStep(the_shape)
        loop == PoseLoop(the_shape, the_shape.used_bones, NoneXf)
    IN IF s2.offset_consistent THEN s2.xf
       ELSE IF loop.pose_xf = NoneXf THEN TypeErrorXf
       ELSE inverted(MatMul(s2.xf, loop.pose_xf))

\* xf after the pose step; "xf @ None" raises TypeError when no bone is used
PoseStep(the_shape) ==
    LET s2 == ReferenceStep(the_shape)
        loop == PoseLoop(the_shape, the_shape.used_bones, NoneXf)
    IN IF s2.offset_consistent THEN s2.xf
       ELSE IF ~loop.same THEN s2.xf
       ELSE IF loop.pose_xf = NoneXf THEN TypeErrorXf
       ELSE inverted(MatMul(s2.xf, loop.pose_xf))

calc_obj_transform(the_shape, scale_factor) ==
    IF ~the_shape.has_skin_instance
    THEN apply_scale_xf(the_shape.transform, scale_factor)
    ELSE IF PoseStep(the_shape) = TypeErrorXf THEN TypeErrorXf
    ELSE apply_scale_xf(PoseStep(the_shape), scale_factor)

\* ------------------------------------------------------------ armatures
\* the bone dictionary's Blender name of a nif bone
DictBlenderName(nif_name) ==
    CASE nif_name = Spine -> "Spine.B"
      [] nif_name = Neck -> "Neck.B"
      [] OTHER -> nif_name

\* NifImporter.blender_name (rename_bones_nift is off)
blender_name(nif_name) ==
    IF rename_bones THEN DictBlenderName(nif_name) ELSE nif_name

\* game_rotations[game_axes[game]]: the rotation from a nif bone to a Blender
\* bone and its inverse, a quarter turn about x one way or the other
game_rotations(game) ==
    IF game = "SKYRIM" THEN <<XF(1, 0, 0), XF(3, 0, 0)>>
    ELSE <<XF(3, 0, 0), XF(1, 0, 0)>>

\* get_pose_blender_xf(node_xf, game, scale_factor)
get_pose_blender_xf(node_xf, game, scale_factor) ==
    MatMul(apply_scale_transl(node_xf, scale_factor, 1), game_rotations(game)[1])

\* the bone create_bone(armdata, name, node_xf, game, scale_factor, 0) makes:
\* bind (edit) matrix from the nif transform, pose matrix at rest, no parent
create_bone(node_xf, game, scale_factor) ==
    [matrix_local |-> get_pose_blender_xf(node_xf, game, scale_factor),
     matrix |-> get_pose_blender_xf(node_xf, game, scale_factor),
     parent |-> ""]

\* an armature object: its bones by Blender name and its PYN_TRANSFORM property
Armature(bones, xf) == [bones |-> bones, PYN_TRANSFORM |-> xf]

\* make_armature: a new armature without bones
make_armature == Armature(<<>>, NoneXf)

get_bone_global_xf(arma, bone_name, game, use_pose) ==
    IF use_pose
    THEN MatMul(arma.bones[bone_name].matrix, game_rotations(game)[2])
    ELSE MatMul(arma.bones[bone_name].matrix_local, game_rotations(game)[2])

\* get_bone_xform that takes the parent at its bind position whatever use_pose says
get_bone_xform_bind_parent(arma, bone_name, game, preserve_hierarchy, use_pose) ==
    LET bonexf == get_bone_global_xf(arma, bone_name, game, use_pose)
        bparent == arma.bones[bone_name].parent
    IN IF preserve_hierarchy /\ bparent # ""
       THEN MatMul(inverted(get_bone_global_xf(arma, bparent, game, FALSE)), bonexf)
       ELSE bonexf

\* get_bone_xform(arma, bone_name, game, preserve_hierarchy, use_pose)
get_bone_xform(arma, bone_name, game, preserve_hierarchy, use_pose) ==
    LET bonexf == get_bone_global_xf(arma, bone_name, game, use_pose)
        bparent == arma.bones[bone_name].parent
    IN IF preserve_hierarchy /\ bparent # ""
       THEN MatMul(inverted(get_bone_global_xf(arma, bparent, game, use_pose)), bonexf)
       ELSE bonexf

is_compatible_skeleton(skin_xf, shape, skel) ==
    \A b \in Range(shape.bone_names) :
        b \in DOMAIN skel.nodes =>
            MatNearEqual(MatMul(skin_xf, inverted(get_shape_skin_to_bone(shape, b))),
                         skel.nodes[b].xform_to_global, 1, 100)

\* --------------------------------------------------- find_compatible_arma
\* the bone's bind position in the shape, placed in the scene
ShapeBoneXf(obj, b) ==
    MatMul(obj.matrix_world, apply_scale_xf(bind_position(obj.shape, b), scale))

\* ArmaBoneLoop comparing with the bones' pose positions instead of their
\* bind positions
RECURSIVE ArmaBoneLoopPose(_, _, _, _, _, _)
ArmaBoneLoopPose(obj, arma, bs, is_ok, offset_xf, offset_consistent) ==
    IF bs = <<>>
    THEN [is_ok |-> is_ok, offset_xf |-> offset_xf, offset_consistent |-> offset_consistent]
    ELSE LET b == Head(bs)
             blend_name == blender_name(b)
             shape_bone_xf == ShapeBoneXf(obj, b)
             arma_xf == get_bone_xform(arma, blend_name, nif.game, FALSE, TRUE)
             this_offset == MatMul(shape_bone_xf, arma_xf)
         IN IF blend_name \notin DOMAIN arma.bones
            THEN ArmaBoneLoopPose(obj, arma, Tail(bs), is_ok, offset_xf, offset_consistent)
            ELSE IF MatNearEqualDef(shape_bone_xf, arma_xf)
            THEN ArmaBoneLoopPose(obj, arma, Tail(bs), is_ok, offset_xf, offset_consistent)
            ELSE IF offset_xf = NoneXf
            THEN ArmaBoneLoopPose(obj, arma, Tail(bs), FALSE, this_offset, offset_consistent)
            ELSE IF ~MatNearEqualDef(this_offset, offset_xf)
            THEN [is_ok |-> FALSE, offset_xf |-> offset_xf, offset_consistent |-> FALSE]
            ELSE ArmaBoneLoopPose(obj, arma, Tail(bs), FALSE, offset_xf, offset_consistent)

\* the loop over shape.bone_names for one armature; bs = the bones still to visit
RECURSIVE ArmaBoneLoop(_, _, _, _, _, _)
ArmaBoneLoop(obj, arma, bs, is_ok, offset_xf, offset_consistent) ==
    IF bs = <<>>
    THEN [is_ok |-> is_ok, offset_xf |-> offset_xf, offset_consistent |-> offset_consistent]
    ELSE LET b == Head(bs)
             blend_name == blender_name(b)
             shape_bone_xf == ShapeBoneXf(obj, b)
             arma_xf == get_bone_xform(arma, blend_name, nif.game, FALSE, FALSE)
             this_offset == MatMul(shape_bone_xf, arma_xf)
         IN IF blend_name \notin DOMAIN arma.bones
            THEN ArmaBoneLoop(obj, arma, Tail(bs), is_ok, offset_xf, offset_consistent)
            ELSE IF MatNearEqualDef(shape_bone_xf, arma_xf)
            THEN ArmaBoneLoop(obj, arma, Tail(bs), is_ok, offset_xf, offset_consistent)
            ELSE IF offset_xf = NoneXf
            THEN ArmaBoneLoop(obj, arma, Tail(bs), FALSE, this_offset, offset_consistent)
            ELSE IF ~MatNearEqualDef(this_offset, offset_xf)
            THEN [is_ok |-> FALSE, offset_xf |-> offset_xf, offset_consistent |-> FALSE]
            ELSE ArmaBoneLoop(obj, arma, Tail(bs), FALSE, offset_xf, offset_consistent)

\* (None, None)
NoTarget == [arma |-> 0, xf |-> NoneXf]

\* find_compatible_arma with the consistent-offset return switched on
find_compatible_arma_offset(obj, armatures) ==
    IF armatures = <<>> THEN NoTarget
    ELSE LET arma == Head(armatures)
             r == ArmaBoneLoop(obj, objects[arma], obj.shape.bone_names, TRUE, NoneXf, TRUE)
         IN IF r.is_ok THEN [arma |-> arma, xf |-> r.offset_xf]
            ELSE IF r.offset_consistent THEN [arma |-> arma, xf |-> r.offset_xf]
            ELSE NoTarget

\* find_compatible_arma that goes on to the next candidate when one fails
RECURSIVE find_compatible_arma_continue(_, _)
find_compatible_arma_continue(obj, armatures) ==
    IF armatures = <<>> THEN NoTarget
    ELSE LET arma == Head(armatures)
             r == ArmaBoneLoop(obj, objects[arma], obj.shape.bone_names, TRUE, NoneXf, TRUE)
         IN IF r.is_ok THEN [arma |-> arma, xf |-> r.offset_xf]
            ELSE find_compatible_arma_continue(obj, Tail(armatures))

\* find_compatible_arma that keeps the last candidate that is ok
RECURSIVE find_compatible_arma_last(_, _)
find_compatible_arma_last(obj, armatures) ==
    IF armatures = <<>> THEN NoTarget
    ELSE LET arma == Head(armatures)
             r == ArmaBoneLoop(obj, objects[arma], obj.shape.bone_names, TRUE, NoneXf, TRUE)
             later == find_compatible_arma_last(obj, Tail(armatures))
         IN IF later.arma # 0 THEN later
            ELSE IF r.is_ok THEN [arma |-> arma, xf |-> r.offset_xf]
            ELSE NoTarget

\* the body of "for arma in armatures" returns in its first round, whatever it finds
find_compatible_arma(obj, armatures) ==
    IF armatures = <<>> THEN NoTarget
    ELSE LET arma == Head(armatures)
             r == ArmaBoneLoop(obj, objects[arma], obj.shape.bone_names, TRUE, NoneXf, TRUE)
         IN IF r.is_ok THEN [arma |-> arma, xf |-> r.offset_xf]
            ELSE IF FALSE /\ r.offset_consistent THEN [arma |-> arma, xf |-> r.offset_xf]
            ELSE NoTarget

\* --------------------------------------------------------- set_bone_poses
\* set_bone_poses that moves the bone's bind position along with its pose
RECURSIVE set_bone_poses_bind(_, _, _)
set_bone_poses_bind(arma, nf, bonelist) ==
    IF bonelist = <<>> THEN arma
    ELSE LET bn == Head(bonelist)[1]
             blname == Head(bonelist)[2]
             pbmx == get_pose_blender_xf(nf.nodes[bn].xform_to_global, nif.game, scale)
             posed ==
                 IF /\ bn \in DOMAIN nf.nodes
                    /\ blname \in DOMAIN arma.bones
                    /\ nf.nodes[bn].blockname = "NiNode"
                    /\ bn # nf.rootName
                 THEN [arma EXCEPT !.bones[blname].matrix = pbmx,
                                   !.bones[blname].matrix_local = pbmx]
                 ELSE arma
         IN set_bone_poses_bind(posed, nf, Tail(bonelist))

\* set_bone_poses that leaves the import scale out of the pose
RECURSIVE set_bone_poses_unscaled(_, _, _)
set_bone_poses_unscaled(arma, nf, bonelist) ==
    IF bonelist = <<>> THEN arma
    ELSE LET bn == Head(bonelist)[1]
             blname == Head(bonelist)[2]
             posed ==
                 IF /\ bn \in DOMAIN nf.nodes
                    /\ blname \in DOMAIN arma.bones
                    /\ nf.nodes[bn].blockname = "NiNode"
                    /\ bn # nf.rootName
                 THEN [arma EXCEPT !.bones[blname].matrix =
                          get_pose_blender_xf(nf.nodes[bn].xform_to_global, nif.game, 1)]
                 ELSE arma
         IN set_bone_poses_unscaled(posed, nf, Tail(bonelist))

\* bonelist = <<nif name, Blender name>> pairs; the armature with the poses set
RECURSIVE set_bone_poses(_, _, _)
set_bone_poses(arma, nf, bonelist) ==
    IF bonelist = <<>> THEN arma
    ELSE LET bn == Head(bonelist)[1]
             blname == Head(bonelist)[2]
             posed ==
                 IF /\ bn \in DOMAIN nf.nodes
                    /\ blname \in DOMAIN arma.bones
                    /\ nf.nodes[bn].blockname = "NiNode"
                    /\ bn # nf.rootName
                 THEN [arma EXCEPT !.bones[blname].matrix =
                          get_pose_blender_xf(nf.nodes[bn].xform_to_global, nif.game, scale)]
                 ELSE arma
         IN set_bone_poses(posed, nf, Tail(bonelist))

\* -------------------------------------------------------- set_parent_arma
\* calc_skin_transform(arma, obj) with an object: the skin transform, the
\* armature with PYN_TRANSFORM recorded, and whether a warning was added
calc_skin_transform(arma, obj) ==
    IF arma.PYN_TRANSFORM = NoneXf
    THEN [skin_xf |-> obj.matrix_world,
          arma |-> [arma EXCEPT !.PYN_TRANSFORM = obj.matrix_world],
          warned |-> FALSE]
    ELSE [skin_xf |-> obj.matrix_world,
          arma |-> arma,
          warned |-> ~MatNearEqualDef(arma.PYN_TRANSFORM, obj.matrix_world)]

\* the transform a missing bone of the shape is created with
ShapeBoneCreateXf(nif_shape, bn, skin_xf, ref_compat) ==
    IF create_bones /\ bn \in DOMAIN reference_skel.nodes /\ ref_compat
    THEN reference_skel.nodes[bn].xform_to_global
    ELSE MatMul(skin_xf, inverted(get_shape_skin_to_bone(nif_shape, bn)))

\* the loop over nif_shape.bone_names that creates the bones the armature
\* lacks; bs = the bones still to visit
RECURSIVE CreateShapeBones(_, _, _, _, _, _)
CreateShapeBones(arma, nif_shape, skin_xf, ref_compat, bs, new_bones) ==
    IF bs = <<>> THEN [arma |-> arma, new_bones |-> new_bones]
    ELSE LET bn == Head(bs)
             blname == blender_name(bn)
             bone == create_bone(ShapeBoneCreateXf(nif_shape, bn, skin_xf, ref_compat),
                                 nif.game, scale)
         IN IF blname \notin DOMAIN arma.bones
            THEN CreateShapeBones([arma EXCEPT !.bones = (blname :> bone) @@ arma.bones],
                                  nif_shape, skin_xf, ref_compat, Tail(bs),
                                  Append(new_bones, <<bn, blname>>))
            ELSE CreateShapeBones(arma, nif_shape, skin_xf, ref_compat, Tail(bs), new_bones)

\* set_parent_arma that makes an armature whether or not it is given one
set_parent_arma_fresh(arma, obj, nif_shape, s2a_xf) ==
    LET objs == Append(objects, make_armature)
        a == Len(objs)
        cst == calc_skin_transform(objs[a], obj)
        skin_xf == apply_scale_transl(cst.skin_xf, 1, scale)
    IN [objects |-> [objs EXCEPT ![a] = cst.arma],
        arma |-> a,
        obj |-> [obj EXCEPT !.matrix_world = cst.skin_xf, !.parent = a],
        warnings |-> warnings]

\* set_parent_arma(arma, obj, nif_shape, s2a_xf), arma an index into objects
\* or 0 for None: the scene's armatures, the armature returned, the object
\* and the warnings afterwards
set_parent_arma(arma, obj, nif_shape, s2a_xf) ==
    LET objs == IF arma = 0 THEN Append(objects, make_armature) ELSE objects
        a == IF arma = 0 THEN Len(objs) ELSE arma
        cst == calc_skin_transform(objs[a], obj)
        w1 == IF cst.warned THEN Append(warnings, "skin transform does not match armature")
              ELSE warnings
        unscaled_skin_xf ==
            IF s2a_xf # NoneXf THEN MatMul(inverted(cst.skin_xf), s2a_xf) ELSE cst.skin_xf
        skin_xf == apply_scale_transl(unscaled_skin_xf, 1, scale)
        ref_compat == is_compatible_skeleton(skin_xf, nif_shape, reference_skel)
        w2 == IF ~reference_skel.present THEN Append(w1, "no reference skeleton")
              ELSE IF ~ref_compat THEN Append(w1, "not compatible with skeleton")
              ELSE w1
        made == IF ~reference_skel.present THEN [arma |-> cst.arma, new_bones |-> <<>>]
                ELSE CreateShapeBones(cst.arma, nif_shape, skin_xf, ref_compat,
                                      nif_shape.bone_names, <<>>)
        posed == set_bone_poses(made.arma, nif, made.new_bones)
    IN [objects |-> [objs EXCEPT ![a] = posed],
        arma |-> a,
        obj |-> [obj EXCEPT !.matrix_world = unscaled_skin_xf, !.parent = a],
        warnings |-> w2]

\* ------------------------------------------------------- the inputs drawn
RENAME_BONES_DEF == TRUE

Scales == {1, 2}

\* the shapes a nif of the import run may hold
FlowShapes ==
    {SkinnedShape(<<Spine, Neck>>, <<Spine, Neck>>, <<s, n>>, NoneXf) :
        s \in {Translate(8, 0), Translate(10, 0)},
        n \in {Translate(13, 0), Translate(15, 0), Translate(20, 0)}}
    \cup {SkinnedShape(<<Spine>>, <<Spine>>, <<Translate(8, 0)>>, NoneXf),
          SkinnedShape(<<Neck>>, <<Neck>>, <<Translate(15, 0)>>, NoneXf)}
    \cup {StaticShape(Translate(1, 0))}

\* the nifs of the import run: the skeleton at the reference positions for
\* both games, and one whose Neck is posed away from them
FlowNifs ==
    {NifFile(g, Translate(10, 0), Translate(15, 0)) : g \in {"SKYRIM", "FO4"}}
    \cup {NifFile("SKYRIM", Translate(10, 0), Translate(13, 0))}

\* bones (by nif name, at nif positions) of an armature selected before the import
OldBones ==
    {(Spine :> Translate(8, 0)) @@ (Neck :> Translate(13, 0)),
     (Spine :> Translate(10, 0)) @@ (Neck :> Translate(15, 0)),
     (Spine :> Translate(8, 0))}

\* an armature made by an earlier import of the same game at the same scale
OldArmature(bs) ==
    Armature([bl \in {blender_name(n) : n \in DOMAIN bs} |->
                 create_bone(bs[CHOOSE n \in DOMAIN bs : blender_name(n) = bl],
                             nif.game, scale)],
             NoneXf)

\* the shapes the placement calculation is tried on
PlaceShapes ==
    {SkinnedShape(<<Spine, Neck>>, u, <<s, n>>, g) :
        u \in {<<Spine, Neck>>, <<Neck>>, <<>>},
        s \in {Translate(8, 0), Translate(8, 1), Translate(10, 0), Turned(1, 8)},
        n \in {Translate(13, 0), Translate(15, 0), Translate(20, 0)},
        g \in {NoneXf, Translate(1, 0), Turned(1, 0)}}
    \cup {SkinnedShape(<<Neck, Spine>>, <<Neck, Spine>>, <<n, s>>, g) :
        s \in {Translate(8, 0), Translate(8, 1), Translate(10, 0), Turned(1, 8)},
        n \in {Translate(13, 0), Translate(15, 0), Translate(20, 0)},
        g \in {NoneXf, Translate(1, 0)}}
    \cup {StaticShape(Translate(1, 0)), StaticShape(Turned(1, 3))}

PlaceNifs ==
    {NifFile("SKYRIM", s, n) :
        s \in {Translate(10, 0), Translate(8, 0)},
        n \in {Translate(15, 0), Translate(13, 0), Translate(13, 1)}}

\* ------------------------------------------------------------- import_nif
\* no batch operation of the Rig Builder has begun
NoRig ==
    /\ bones_to_parent = <<>>
    /\ idx = 0
    /\ todo = <<>>
    /\ new_bone_list = <<>>
    /\ skin = [skin_xf |-> NoneXf, ref_compat |-> FALSE]
    /\ pose_list = <<>>
    /\ objects_created = {}
    /\ loose = [arma |-> 0, original_bones |-> {}]
    /\ history = <<>>

\* no export has begun and no helper was called
NoExport ==
    /\ preserve_hierarchy_opt = FALSE
    /\ export_pose = FALSE
    /\ writtenbones = <<>>
    /\ nodes_written = <<>>
    /\ bones_to_write = {}
    /\ bone_xforms = <<>>
    /\ skin_to_bone_written = <<>>
    /\ skel_xml = [bones |-> <<>>, parentIndices |-> <<>>, referencePose |-> <<>>]
    /\ scaled = [arg |-> NoneXf, sfN |-> 1, sfD |-> 1, result |-> NoneXf]

\* state after NifImporter.__init__, the operator's options and the selected
\* armature, with the nif file opened
Init ==
    /\ create_bones \in BOOLEAN
    /\ rename_bones = RENAME_BONES_DEF
    /\ reference_skel \in {NoSkel, RefSkel}
    /\ scale \in Scales
    /\ nif \in FlowNifs
    /\ objects \in {<<>>} \cup {<<OldArmature(bs)>> : bs \in OldBones}
    /\ armature = Len(objects)
    /\ imported_armatures = <<>>
    /\ loaded_meshes = <<>>
    /\ warnings = <<>>
    /\ pc = "shapes"
    /\ cur = 0
    /\ target = NoTarget
    /\ NoRig
    /\ NoExport

\* import_shape(s): the mesh object of shape s, placed by calc_obj_transform
ImportShape(s) ==
    /\ pc = "shapes"
    /\ Len(loaded_meshes) < MaxShapes
    /\ LET xf == calc_obj_transform(s, scale)
       IN /\ loaded_meshes' = Append(loaded_meshes, [shape |-> s, matrix_world |-> xf, parent |-> 0])
          /\ pc' = IF xf = TypeErrorXf THEN "raised" ELSE "shapes"
    /\ UNCHANGED <<expvars, create_bones, rename_bones, reference_skel, scale, nif, objects,
                   armature, imported_armatures, warnings, cur, target>>
    /\ UNCHANGED rigvars

\* all shapes are imported: the list of armatures available for the shapes
BeginSkinning ==
    /\ pc = "shapes"
    /\ Len(loaded_meshes) > 0
    /\ imported_armatures' = IF armature # 0 THEN <<armature>> ELSE imported_armatures
    /\ cur' = 1
    /\ pc' = "skin"
    /\ UNCHANGED <<expvars, create_bones, rename_bones, reference_skel, scale, nif, objects,
                   armature, loaded_meshes, warnings, target>>
    /\ UNCHANGED rigvars

\* the next object has no skin instance
SkipUnskinned ==
    /\ pc = "skin"
    /\ cur <= Len(loaded_meshes)
    /\ ~loaded_meshes[cur].shape.has_skin_instance
    /\ cur' = cur + 1
    /\ UNCHANGED <<expvars, create_bones, rename_bones, reference_skel, scale, nif, objects,
                   armature, imported_armatures, loaded_meshes, warnings, pc, target>>
    /\ UNCHANGED rigvars

\* target_arma, target_xf = find_compatible_arma(obj, imported_armatures)
FindCompatibleArma ==
    /\ pc = "skin"
    /\ cur <= Len(loaded_meshes)
    /\ loaded_meshes[cur].shape.has_skin_instance
    /\ target' = find_compatible_arma(loaded_meshes[cur], imported_armatures)
    /\ armature' = target'.arma
    /\ pc' = "parent"
    /\ UNCHANGED <<expvars, create_bones, rename_bones, reference_skel, scale, nif, objects,
                   imported_armatures, loaded_meshes, warnings, cur>>
    /\ UNCHANGED rigvars

\* new_arma = set_parent_arma(target_arma, obj, sh, target_xf), and the new
\* armature joins imported_armatures
SetParentArma ==
    /\ pc = "parent"
    /\ LET obj == loaded_meshes[cur]
           r == set_parent_arma(target.arma, obj, obj.shape, target.xf)
       IN /\ objects' = r.objects
          /\ loaded_meshes' = [loaded_meshes EXCEPT ![cur] = r.obj]
          /\ warnings' = r.warnings
          /\ imported_armatures' = IF target.arma = 0
                                   THEN Append(imported_armatures, r.arma)
                                   ELSE imported_armatures
          /\ armature' = IF target.arma = 0 THEN r.arma ELSE armature
    /\ cur' = cur + 1
    /\ pc' = "skin"
    /\ UNCHANGED <<expvars, create_bones, rename_bones, reference_skel, scale, nif, target>>
    /\ UNCHANGED rigvars

Next ==
    \/ \E s \in FlowShapes : ImportShape(s)
    \/ BeginSkinning
    \/ SkipUnskinned
    \/ FindCompatibleArma
    \/ SetParentArma

Spec == Init /\ [][Next]_vars

\* ------------------------------------- calc_obj_transform on its own
InitPlace ==
    /\ create_bones \in BOOLEAN
    /\ rename_bones = RENAME_BONES_DEF
    /\ reference_skel \in {NoSkel, RefSkel, RefSkelSpine}
    /\ scale \in Scales
    /\ nif \in PlaceNifs
    /\ objects = <<>>
    /\ armature = 0
    /\ imported_armatures = <<>>
    /\ loaded_meshes = <<>>
    /\ warnings = <<>>
    /\ pc = "place"
    /\ cur = 0
    /\ target = NoTarget
    /\ NoRig
    /\ NoExport

\* new_object.matrix_world = calc_obj_transform(the_shape, scale_factor=self.scale)
PlaceShape(s) ==
    /\ pc = "place"
    /\ loaded_meshes' = <<[shape |-> s, matrix_world |-> calc_obj_transform(s, scale), parent |-> 0]>>
    /\ pc' = "placed"
    /\ UNCHANGED <<expvars, create_bones, rename_bones, reference_skel, scale, nif, objects,
                   armature, imported_armatures, warnings, cur, target>>
    /\ UNCHANGED rigvars

NextPlace == \E s \in PlaceShapes : PlaceShape(s)

SpecPlace == InitPlace /\ [][NextPlace]_vars

\* ============================================================ Rig Builder
\* add_bone_to_arma, add_bones_to_arma, connect_armature, set_parent_arma,
\* import_loose_ninodes and set_bone_poses working on one armature, objects[1].  The batch operations
\* run one loop round per step; the import of collision objects at the end of
\* connect_armature touches no bone and is left out.

Pelvis == "Pelvis"
Skull == "Head"
Arm == "Arm"
FaceBone == "skin_bone_C_MasterEyebrow"

\* the bone dictionary's nif name of a Blender bone
DictNifName(bl) ==
    CASE bl = "Spine.B" -> Spine
      [] bl = "Neck.B" -> Neck
      [] OTHER -> bl

\* NifImporter.nif_name (rename_bones_nift is off)
nif_name(bl) ==
    IF rename_bones THEN DictNifName(bl) ELSE bl

\* is_facebone(bonename): the bone belongs to the FO4 face rig
is_facebone(bonename) == bonename = FaceBone

\* the order in which a file lists its nodes and an armature its bones
NameOrder == <<RootName, Pelvis, Spine, Neck, Skull, Arm, FaceBone>>

Reverse(s) == [k \in 1..Len(s) |-> s[Len(s) + 1 - k]]

\* the members of set S in the order of sequence s
Listed(s, S) == SelectSeq(s, LAMBDA n : n \in S)

\* nif.nodes.keys()
NodeKeys(nf) == Listed(NameOrder, DOMAIN nf.nodes)

\* the global transform of a node in the files imported into the rig
NodeXf(n) ==
    CASE n = Pelvis -> Translate(4, 0)
      [] n = Spine -> Translate(9, 0)
      [] n = Neck -> Translate(14, 0)
      [] n = Skull -> Translate(17, 0)
      [] n = Arm -> Translate(13, 0)
      [] n = FaceBone -> Translate(18, 0)
      [] OTHER -> Identity

\* the global bind transform of a bone in the reference skeleton
SkelXf(n) ==
    CASE n = Pelvis -> Translate(5, 0)
      [] n = Spine -> Translate(10, 0)
      [] n = Neck -> Translate(15, 0)
      [] n = Skull -> Translate(18, 0)
      [] n = Arm -> Translate(14, 0)
      [] n = FaceBone -> Translate(19, 0)
      [] OTHER -> Identity

\* a nif file from the parent of each node; other = the nodes whose block is
\* not a plain NiNode
HierNif(par, other) ==
    [game |-> "SKYRIM", rootName |-> RootName,
     nodes |-> [n \in DOMAIN par \cup {RootName} |->
                  IF n = RootName THEN Node("", Identity)
                  ELSE [parent |-> par[n], xform_to_global |-> NodeXf(n),
                        blockname |-> IF n \in other THEN "NiBillboardNode" ELSE "NiNode"]]]

\* the files imported into the rig
RigNifs ==
    {\* a full skeleton
     HierNif((Spine :> RootName) @@ (Neck :> Spine) @@ (Skull :> Neck) @@ (Arm :> Spine), {}),
     \* the neck and the face bone hang on the root, the arm is a billboard node
     HierNif((Spine :> RootName) @@ (Neck :> RootName) @@ (Skull :> Neck) @@ (Arm :> Neck)
             @@ (FaceBone :> RootName), {Arm}),
     \* two branches that meet in the spine
     HierNif((Spine :> RootName) @@ (Neck :> Spine) @@ (Skull :> Spine) @@ (Arm :> Neck), {}),
     \* the spine hangs on the neck, the reverse of the reference skeleton
     HierNif((Spine :> Neck) @@ (Neck :> RootName) @@ (Skull :> Neck), {}),
     \* a cycle: Spine's parent is Neck and Neck's parent is Spine
     HierNif((Spine :> Neck) @@ (Neck :> Spine) @@ (Skull :> Neck), {})}

\* the reference skeleton of the rig: Pelvis - Spine - Neck - Head, the arm on
\* the spine and the face bone on the head
RigSkel ==
    LET par == (Pelvis :> RootName) @@ (Spine :> Pelvis) @@ (Neck :> Spine)
               @@ (Skull :> Neck) @@ (Arm :> Spine) @@ (FaceBone :> Skull)
    IN [present |-> TRUE, rootName |-> RootName,
        nodes |-> [n \in DOMAIN par \cup {RootName} |->
                     IF n = RootName THEN Node("", Identity)
                     ELSE Node(par[n], SkelXf(n))]]

\* bones of the armature before the operations, by nif name
RigOldBones ==
    {<<>>,
     (Skull :> Translate(17, 0)) @@ (Arm :> Translate(13, 0)),
     (Spine :> Translate(8, 0)) @@ (Neck :> Translate(13, 0))}

\* the skinned shapes parented to the rig
RigShapes ==
    {SkinnedShape(<<Spine, Neck>>, <<Spine, Neck>>, <<Translate(8, 0), Translate(13, 0)>>, NoneXf),
     SkinnedShape(<<Spine, Neck>>, <<Spine, Neck>>, <<Translate(8, 0), Translate(20, 0)>>, NoneXf)}

\* the armature the Rig Builder works on
Rig == objects[1]

\* the call of an operation, a creation or a pose write of a bone, as the
\* history records it
Event(ev, op, bn, blname) == [ev |-> ev, op |-> op, nifname |-> bn, bone |-> blname]

\* -------------------------------------------------------- add_bone_to_arma
\* calc_skin_transform(arma) without an object: the armature's PYN_TRANSFORM
\* or the identity
calc_skin_transform_arma(arma) ==
    IF arma.PYN_TRANSFORM # NoneXf THEN arma.PYN_TRANSFORM ELSE Identity

\* AddBoneXf that takes the reference skeleton also when create_bones is off
AddBoneXfAnyway(arma, nifname) ==
    IF reference_skel.present /\ nifname \in DOMAIN reference_skel.nodes
    THEN reference_skel.nodes[nifname].xform_to_global
    ELSE MatMul(apply_scale_transl(calc_skin_transform_arma(arma), 1, scale),
                nif.nodes[nifname].xform_to_global)

\* the nif transform add_bone_to_arma creates the bone from
AddBoneXf(arma, nifname) ==
    IF create_bones /\ reference_skel.present /\ nifname \in DOMAIN reference_skel.nodes
    THEN reference_skel.nodes[nifname].xform_to_global
    ELSE MatMul(apply_scale_transl(calc_skin_transform_arma(arma), 1, scale),
                nif.nodes[nifname].xform_to_global)

\* the transform of a node of this file, or a bone of this reference skeleton, exists
KnownSource(nifname) ==
    \/ nifname \in DOMAIN nif.nodes
    \/ create_bones /\ reference_skel.present /\ nifname \in DOMAIN reference_skel.nodes

\* add_bone_to_arma that makes the bone again when the rig has it already
add_bone_to_arma_again(arma, bone_name, nifname) ==
    IF bone_name \in DOMAIN arma.bones /\ ~KnownSource(nifname) THEN arma
    ELSE [arma EXCEPT !.bones =
        (bone_name :> create_bone(AddBoneXf(arma, nifname), nif.game, scale))
        @@ [b \in DOMAIN arma.bones \ {bone_name} |-> arma.bones[b]]]

\* add_bone_to_arma(arma, bone_name, nifname): the armature afterwards
add_bone_to_arma(arma, bone_name, nifname) ==
    IF bone_name \in DOMAIN arma.bones THEN arma
    ELSE [arma EXCEPT !.bones =
             (bone_name :> create_bone(AddBoneXf(arma, nifname), nif.game, scale))
             @@ arma.bones]

\* the pose writes set_bone_poses(arma, nf, bl) makes, in order
PoseWrites(arma, nf, bl, op) ==
    LET written == SelectSeq(bl, LAMBDA e :
                       /\ e[1] \in DOMAIN nf.nodes
                       /\ e[2] \in DOMAIN arma.bones
                       /\ nf.nodes[e[1]].blockname = "NiNode"
                       /\ e[1] # nf.rootName)
    IN [k \in 1..Len(written) |-> Event("pose", op, written[k][1], written[k][2])]

\* ------------------------------------------------------- the rig's start
InitRig ==
    /\ create_bones \in BOOLEAN
    /\ rename_bones = RENAME_BONES_DEF
    /\ reference_skel \in {NoSkel, RigSkel}
    /\ scale \in Scales
    /\ nif \in RigNifs
    /\ objects \in {<<OldArmature(bs)>> : bs \in RigOldBones}
    /\ armature = 1
    /\ imported_armatures = <<1>>
    /\ loaded_meshes = <<>>
    /\ warnings = <<>>
    /\ pc = "idle"
    /\ cur = 0
    /\ target = NoTarget
    /\ NoRig
    /\ NoExport

\* what no operation of the Rig Builder changes
UNCHANGED_importer ==
    UNCHANGED <<expvars, create_bones, rename_bones, reference_skel, scale, nif, armature,
                imported_armatures, cur, target, objects_created, loose>>

\* one call add_bone_to_arma(arma, bone_name, nifname)
AddBoneToArma(bone_name, nifname) ==
    /\ pc = "idle"
    /\ bone_name \in DOMAIN Rig.bones \/ KnownSource(nifname)
    /\ objects' = [objects EXCEPT ![1] = add_bone_to_arma(Rig, bone_name, nifname)]
    /\ history' = IF bone_name \in DOMAIN Rig.bones
                  THEN <<Event("call", "add_bone_to_arma", nifname, bone_name)>>
                  ELSE <<Event("call", "add_bone_to_arma", nifname, bone_name),
                         Event("create", "add_bone_to_arma", nifname, bone_name)>>
    /\ pose_list' = <<>>
    /\ new_bone_list' = <<>>
    /\ pc' = "done"
    /\ UNCHANGED <<loaded_meshes, warnings, bones_to_parent, idx, todo, skin>>
    /\ UNCHANGED_importer

\* one call set_bone_poses(arma, nif, bonelist)
SetBonePoses(bl) ==
    /\ pc = "idle"
    /\ objects' = [objects EXCEPT ![1] = set_bone_poses(Rig, nif, bl)]
    /\ history' = <<Event("call", "set_bone_poses", "", "")>>
                  \o PoseWrites(Rig, nif, bl, "set_bone_poses")
    /\ pose_list' = bl
    /\ new_bone_list' = <<>>
    /\ pc' = "done"
    /\ UNCHANGED <<loaded_meshes, warnings, bones_to_parent, idx, todo, skin>>
    /\ UNCHANGED_importer

\* ------------------------------------------------------ add_bones_to_arma
\* add_bones_to_arma(arma, nif, nif.nodes.keys()) begins
AddBonesBegin ==
    /\ pc = "idle"
    /\ pc' = "add_bones"
    /\ todo' = NodeKeys(nif)
    /\ new_bone_list' = <<>>
    /\ history' = <<Event("call", "add_bones_to_arma", "", "")>>
    /\ pose_list' = <<>>
    /\ UNCHANGED <<objects, loaded_meshes, warnings, bones_to_parent, idx, skin>>
    /\ UNCHANGED_importer

\* one round of "for bone_nif_name in bone_names"
AddBonesStep ==
    /\ pc = "add_bones"
    /\ todo # <<>>
    /\ LET bone_nif_name == Head(todo)
           name == blender_name(bone_nif_name)
       IN IF bone_nif_name # nif.rootName
          THEN /\ objects' = [objects EXCEPT ![1] = add_bone_to_arma(Rig, name, bone_nif_name)]
               /\ new_bone_list' = Append(new_bone_list, <<bone_nif_name, name>>)
               /\ history' = IF name \in DOMAIN Rig.bones THEN history
                             ELSE Append(history, Event("create", "add_bones_to_arma",
                                                        bone_nif_name, name))
          ELSE UNCHANGED <<objects, new_bone_list, history>>
    /\ todo' = Tail(todo)
    /\ UNCHANGED <<loaded_meshes, warnings, pc, bones_to_parent, idx, skin, pose_list>>
    /\ UNCHANGED_importer

\* self.set_bone_poses(arma, nif, new_bones) ends add_bones_to_arma
AddBonesPoses ==
    /\ pc = "add_bones"
    /\ todo = <<>>
    /\ objects' = [objects EXCEPT ![1] = set_bone_poses(Rig, nif, new_bone_list)]
    /\ history' = history \o PoseWrites(Rig, nif, new_bone_list, "add_bones_to_arma")
    /\ pose_list' = new_bone_list
    /\ pc' = "done"
    /\ UNCHANGED <<loaded_meshes, warnings, bones_to_parent, idx, todo, new_bone_list, skin>>
    /\ UNCHANGED_importer

\* ------------------------------------------------------- connect_armature
\* the parent the nif gives the bone: a node that is not the root
NifParent(bonename) ==
    LET nifname == nif_name(bonename)
    IN IF /\ nifname \in DOMAIN nif.nodes
          /\ nif.nodes[nifname].parent # ""
          /\ nif.nodes[nifname].parent # nif.rootName
       THEN nif.nodes[nifname].parent
       ELSE ""

\* the parent the reference skeleton gives the bone
SkelParent(bonename) ==
    LET nifname == nif_name(bonename)
    IN IF /\ reference_skel.present
          /\ nifname \in DOMAIN reference_skel.nodes
          /\ nifname # reference_skel.rootName
          /\ reference_skel.nodes[nifname].parent # ""
          /\ reference_skel.nodes[nifname].parent # reference_skel.rootName
       THEN reference_skel.nodes[nifname].parent
       ELSE ""

\* FindParent that asks the reference skeleton before the nif
FindParentSkelFirst(bonename) ==
    IF create_bones /\ ~is_facebone(bonename) /\ SkelParent(bonename) # ""
    THEN SkelParent(bonename)
    ELSE NifParent(bonename)

\* parentnifname: the parent from the nif, else (extending the skeleton, and
\* not for a face bone) the parent from the reference skeleton, else none
FindParent(bonename) ==
    IF NifParent(bonename) # "" THEN NifParent(bonename)
    ELSE IF create_bones /\ ~is_facebone(bonename) THEN SkelParent(bonename)
    ELSE ""

\* bone a is bone b or above it in the armature (n bounds the climb)
RECURSIVE IsAbove(_, _, _, _)
IsAbove(arma, a, b, n) ==
    \/ a = b
    \/ /\ n > 0
       /\ arma.bones[b].parent # ""
       /\ IsAbove(arma, a, arma.bones[b].parent, n - 1)

\* edit_bones[child].parent = edit_bones[parent], done whatever the bones are
EditBoneSetParentUnchecked(arma, child, parent) ==
    [arma EXCEPT !.bones[child].parent = parent]

\* edit_bones[child].parent = edit_bones[parent]: Blender's setter leaves the
\* bone as it is when the new parent is the bone itself or hangs below it
EditBoneSetParent(arma, child, parent) ==
    IF IsAbove(arma, child, parent, Cardinality(DOMAIN arma.bones))
    THEN arma
    ELSE [arma EXCEPT !.bones[child].parent = parent]

\* connect_armature(arma) begins: the bones of the armature are listed
ConnectBegin ==
    /\ pc = "idle"
    /\ pc' = "connect"
    /\ \E order \in {NameOrder, Reverse(NameOrder)} :
          bones_to_parent' = Listed([k \in 1..Len(order) |-> blender_name(order[k])],
                                    DOMAIN Rig.bones)
    /\ idx' = 1
    /\ new_bone_list' = <<>>
    /\ history' = <<Event("call", "connect_armature", "", "")>>
    /\ pose_list' = <<>>
    /\ UNCHANGED <<objects, loaded_meshes, warnings, todo, skin>>
    /\ UNCHANGED_importer

\* HookUp that makes a missing parent and forgets to hang the bone on it
HookUpNewLoose(arma, bonename, parentname, parentnifname) ==
    IF parentname \notin DOMAIN arma.bones
    THEN add_bone_to_arma(arma, parentname, parentnifname)
    ELSE EditBoneSetParent(arma, bonename, parentname)

\* "if parentname:" the armature after the bone is hung on its parent, which
\* is made first when the armature lacks it
HookUp(arma, bonename, parentname, parentnifname) ==
    IF parentname \notin DOMAIN arma.bones
    THEN EditBoneSetParent(add_bone_to_arma(arma, parentname, parentnifname),
                           bonename, parentname)
    ELSE EditBoneSetParent(arma, bonename, parentname)

\* NextIndex that visits a bone again as long as it has a parent to get
NextIndexRetry(arma, bonename) ==
    IF arma.bones[bonename].parent = "" /\ FindParent(bonename) # "" THEN idx ELSE idx + 1

\* "i += 1", arma the armature after the round
NextIndex(arma, bonename) == idx + 1

\* one round of "while i < len(bones_to_parent)"
ConnectStep ==
    /\ pc = "connect"
    /\ idx <= Len(bones_to_parent)
    /\ LET bonename == bones_to_parent[idx]
           parentnifname == FindParent(bonename)
           parentname == blender_name(parentnifname)
       IN /\ IF Rig.bones[bonename].parent = "" /\ parentnifname # ""
             THEN /\ objects' = [objects EXCEPT ![1] =
                        HookUp(Rig, bonename, parentname, parentnifname)]
                  /\ IF parentname \notin DOMAIN Rig.bones
                     THEN /\ bones_to_parent' = Append(bones_to_parent, parentname)
                          /\ new_bone_list' =
                                Append(new_bone_list, <<parentnifname, parentname>>)
                          /\ history' = Append(history, Event("create", "connect_armature",
                                                              parentnifname, parentname))
                     ELSE UNCHANGED <<bones_to_parent, new_bone_list, history>>
             ELSE UNCHANGED <<objects, bones_to_parent, new_bone_list, history>>
          /\ idx' = NextIndex(objects'[1], bonename)
    /\ UNCHANGED <<loaded_meshes, warnings, pc, todo, skin, pose_list>>
    /\ UNCHANGED_importer

\* set_all_bone_poses: the list of all bones of the armature
AllBones(arma) ==
    LET bls == Listed([k \in 1..Len(NameOrder) |-> blender_name(NameOrder[k])],
                      DOMAIN arma.bones)
    IN [k \in 1..Len(bls) |-> <<nif_name(bls[k]), bls[k]>>]

\* the list is worked off: self.set_all_bone_poses(arma, self.nif)
ConnectPoses ==
    /\ pc = "connect"
    /\ idx > Len(bones_to_parent)
    /\ objects' = [objects EXCEPT ![1] = set_bone_poses(Rig, nif, AllBones(Rig))]
    /\ history' = history \o PoseWrites(Rig, nif, AllBones(Rig), "connect_armature")
    /\ pose_list' = AllBones(Rig)
    /\ pc' = "done"
    /\ UNCHANGED <<loaded_meshes, warnings, bones_to_parent, idx, todo, new_bone_list, skin>>
    /\ UNCHANGED_importer

\* -------------------------------------------------------- set_parent_arma
\* set_parent_arma(arma, obj, nif_shape, None) begins for the object of shape
\* s, which import_nif parents once: the skin transform, the compatibility with
\* the reference skeleton
SetParentBegin(s) ==
    /\ pc = "idle"
    /\ \A k \in 1..Len(loaded_meshes) : loaded_meshes[k].shape # s
    /\ calc_obj_transform(s, scale) # TypeErrorXf
    /\ LET obj == [shape |-> s, matrix_world |-> calc_obj_transform(s, scale), parent |-> 0]
           cst == calc_skin_transform(Rig, obj)
           unscaled_skin_xf == cst.skin_xf
           skin_xf == apply_scale_transl(unscaled_skin_xf, 1, scale)
           ref_compat == /\ reference_skel.present
                         /\ is_compatible_skeleton(skin_xf, s, reference_skel)
           w1 == IF cst.warned
                 THEN Append(warnings, "skin transform does not match armature")
                 ELSE warnings
       IN /\ objects' = [objects EXCEPT ![1] = cst.arma]
          /\ loaded_meshes' = Append(loaded_meshes, [obj EXCEPT !.matrix_world = unscaled_skin_xf])
          /\ skin' = [skin_xf |-> skin_xf, ref_compat |-> ref_compat]
          /\ warnings' = IF ~reference_skel.present THEN Append(w1, "no reference skeleton")
                         ELSE IF ~ref_compat THEN Append(w1, "not compatible with skeleton")
                         ELSE w1
          /\ todo' = IF reference_skel.present THEN s.bone_names ELSE <<>>
    /\ pc' = "set_parent"
    /\ new_bone_list' = <<>>
    /\ history' = <<Event("call", "set_parent_arma", "", "")>>
    /\ pose_list' = <<>>
    /\ UNCHANGED <<bones_to_parent, idx>>
    /\ UNCHANGED_importer

\* SetParentBone that sets the pose of each bone as soon as it is made
SetParentBonePosed ==
    /\ pc = "set_parent"
    /\ todo # <<>>
    /\ LET bn == Head(todo)
           blname == blender_name(bn)
           nif_shape == loaded_meshes[Len(loaded_meshes)].shape
           bone == create_bone(ShapeBoneCreateXf(nif_shape, bn, skin.skin_xf, skin.ref_compat),
                               nif.game, scale)
           made == [Rig EXCEPT !.bones = (blname :> bone) @@ Rig.bones]
       IN IF blname \notin DOMAIN Rig.bones
          THEN /\ objects' = [objects EXCEPT ![1] = set_bone_poses(made, nif, <<<<bn, blname>>>>)]
               /\ new_bone_list' = Append(new_bone_list, <<bn, blname>>)
               /\ history' = Append(history, Event("create", "set_parent_arma", bn, blname))
                             \o PoseWrites(made, nif, <<<<bn, blname>>>>, "set_parent_arma")
          ELSE UNCHANGED <<objects, new_bone_list, history>>
    /\ todo' = Tail(todo)
    /\ UNCHANGED <<loaded_meshes, warnings, pc, bones_to_parent, idx, skin, pose_list>>
    /\ UNCHANGED_importer

\* one round of "for bn in nif_shape.bone_names"
SetParentBone ==
    /\ pc = "set_parent"
    /\ todo # <<>>
    /\ LET bn == Head(todo)
           blname == blender_name(bn)
           nif_shape == loaded_meshes[Len(loaded_meshes)].shape
           bone == create_bone(ShapeBoneCreateXf(nif_shape, bn, skin.skin_xf, skin.ref_compat),
                               nif.game, scale)
       IN IF blname \notin DOMAIN Rig.bones
          THEN /\ objects' = [objects EXCEPT ![1].bones = (blname :> bone) @@ Rig.bones]
               /\ new_bone_list' = Append(new_bone_list, <<bn, blname>>)
               /\ history' = Append(history, Event("create", "set_parent_arma", bn, blname))
          ELSE UNCHANGED <<objects, new_bone_list, history>>
    /\ todo' = Tail(todo)
    /\ UNCHANGED <<loaded_meshes, warnings, pc, bones_to_parent, idx, skin, pose_list>>
    /\ UNCHANGED_importer

\* the pose pass and the parenting of the object end set_parent_arma
SetParentPoses ==
    /\ pc = "set_parent"
    /\ todo = <<>>
    /\ objects' = [objects EXCEPT ![1] = set_bone_poses(Rig, nif, new_bone_list)]
    /\ history' = history \o PoseWrites(Rig, nif, new_bone_list, "set_parent_arma")
    /\ pose_list' = new_bone_list
    /\ loaded_meshes' = [loaded_meshes EXCEPT ![Len(loaded_meshes)].parent = 1]
    /\ pc' = "done"
    /\ UNCHANGED <<warnings, bones_to_parent, idx, todo, new_bone_list, skin>>
    /\ UNCHANGED_importer

\* --------------------------------------------------- import_loose_ninodes
\* the parents of node n, the nearest first; k bounds the climb
RECURSIVE ParentsUp(_, _)
ParentsUp(n, k) ==
    IF nif.nodes[n].parent = "" \/ k = 0 THEN <<>>
    ELSE <<nif.nodes[n].parent>> \o ParentsUp(nif.nodes[n].parent, k - 1)

\* "while n: parents.insert(0, n); n = n.parent" comes to an end
ParentsEnd(n) ==
    LET up == ParentsUp(n, Cardinality(DOMAIN nif.nodes))
    IN up = <<>> \/ nif.nodes[up[Len(up)]].parent = ""

\* parents[1:]: the parents of node n from the top down, without the topmost
ParentsDown(n) ==
    LET up == ParentsUp(n, Cardinality(DOMAIN nif.nodes))
    IN IF up = <<>> THEN <<>> ELSE Tail(Reverse(up))

\* import_ninode(arma, ninode, p) on st = (rig, objects_created, history):
\* nothing for the root, for a node imported before and for a bone of an
\* imported armature; a bone for a node of the reference skeleton when there
\* is an armature; an empty object otherwise
import_ninode(st, arma, name) ==
    IF name = nif.rootName THEN st
    ELSE IF name \in st.objects_created THEN st
    ELSE IF blender_name(name) \in DOMAIN st.rig.bones THEN st
    ELSE IF reference_skel.present /\ name \in DOMAIN reference_skel.nodes /\ arma # 0
    THEN [st EXCEPT !.rig = add_bone_to_arma(st.rig, blender_name(name), name),
                    !.history = Append(st.history, Event("create", "import_loose_ninodes",
                                                         name, blender_name(name)))]
    ELSE [st EXCEPT !.objects_created = st.objects_created \cup {name}]

\* import_ninode for each node of the list in turn
RECURSIVE import_ninodes(_, _, _)
import_ninodes(st, arma, names) ==
    IF names = <<>> THEN st
    ELSE import_ninodes(import_ninode(st, arma, Head(names)), arma, Tail(names))

\* import_loose_ninodes(nif, arma) begins, arma the rig or None
LooseBegin(arma) ==
    /\ pc = "idle"
    /\ pc' = "loose"
    /\ loose' = [arma |-> arma,
                 original_bones |-> IF arma # 0 THEN DOMAIN Rig.bones ELSE {}]
    /\ todo' = NodeKeys(nif)
    /\ new_bone_list' = <<>>
    /\ history' = <<Event("call", "import_loose_ninodes", "", "")>>
    /\ pose_list' = <<>>
    /\ UNCHANGED <<objects, loaded_meshes, warnings, bones_to_parent, idx, skin,
                   objects_created>>
    /\ UNCHANGED <<expvars, create_bones, rename_bones, reference_skel, scale, nif, armature,
                   imported_armatures, cur, target>>

\* one round of "for n in nif.nodes.values()": the parents of the node from
\* the top down, then the node; a parent chain without end never returns
LooseStep ==
    /\ pc = "loose"
    /\ todo # <<>>
    /\ IF ParentsEnd(Head(todo))
       THEN LET st == import_ninodes([rig |-> Rig, objects_created |-> objects_created,
                                      history |-> history],
                                     loose.arma, Append(ParentsDown(Head(todo)), Head(todo)))
            IN /\ objects' = [objects EXCEPT ![1] = st.rig]
               /\ objects_created' = st.objects_created
               /\ history' = st.history
               /\ pc' = pc
       ELSE /\ pc' = "hung"
            /\ UNCHANGED <<objects, objects_created, history>>
    /\ todo' = Tail(todo)
    /\ UNCHANGED <<loaded_meshes, warnings, bones_to_parent, idx, new_bone_list, skin,
                   pose_list, loose>>
    /\ UNCHANGED <<expvars, create_bones, rename_bones, reference_skel, scale, nif, armature,
                   imported_armatures, cur, target>>

\* [(self.nif_name(n), n) for n in new_bones]
LooseNewBones ==
    LET bls == Listed([k \in 1..Len(NameOrder) |-> blender_name(NameOrder[k])],
                      DOMAIN Rig.bones \ loose.original_bones)
    IN [k \in 1..Len(bls) |-> <<nif_name(bls[k]), bls[k]>>]

\* with an armature, the pose pass over the new bones ends import_loose_ninodes
LoosePoses ==
    /\ pc = "loose"
    /\ todo = <<>>
    /\ IF loose.arma # 0
       THEN /\ objects' = [objects EXCEPT ![1] = set_bone_poses(Rig, nif, LooseNewBones)]
            /\ history' = history \o PoseWrites(Rig, nif, LooseNewBones,
                                                 "import_loose_ninodes")
            /\ pose_list' = LooseNewBones
            /\ new_bone_list' = LooseNewBones
       ELSE UNCHANGED <<objects, history, pose_list, new_bone_list>>
    /\ pc' = "done"
    /\ UNCHANGED <<loaded_meshes, warnings, bones_to_parent, idx, todo, skin>>
    /\ UNCHANGED_importer

\* the operation returns: its local variables are gone.  import_loose_ninodes
\* is the last operation import_nif runs on the bones of a file.
Return ==
    /\ pc = "done"
    /\ history[1].op # "import_loose_ninodes"
    /\ pc' = "idle"
    /\ bones_to_parent' = <<>>
    /\ idx' = 0
    /\ todo' = <<>>
    /\ new_bone_list' = <<>>
    /\ skin' = [skin_xf |-> NoneXf, ref_compat |-> FALSE]
    /\ pose_list' = <<>>
    /\ loose' = [arma |-> 0, original_bones |-> {}]
    /\ history' = <<>>
    /\ UNCHANGED <<objects, loaded_meshes, warnings, objects_created>>
    /\ UNCHANGED <<expvars, create_bones, rename_bones, reference_skel, scale, nif, armature,
                   imported_armatures, cur, target>>

\* the (bone_name, nifname) pairs add_bone_to_arma is called with: a bone under
\* its own name, under the name of another node and under a name no file has
AddBonePairs ==
    {<<blender_name(Skull), Skull>>, <<blender_name(Pelvis), Pelvis>>,
     <<blender_name(Spine), Neck>>, <<blender_name(Skull), "NPC Head [Head]">>}

\* the lists set_bone_poses is called with
PoseLists ==
    {<<<<Spine, blender_name(Spine)>>, <<Arm, blender_name(Arm)>>,
       <<Pelvis, blender_name(Pelvis)>>, <<RootName, blender_name(RootName)>>>>}

NextRig ==
    \/ \E p \in AddBonePairs : AddBoneToArma(p[1], p[2])
    \/ \E bl \in PoseLists : SetBonePoses(bl)
    \/ AddBonesBegin
    \/ AddBonesStep
    \/ AddBonesPoses
    \/ ConnectBegin
    \/ ConnectStep
    \/ ConnectPoses
    \/ \E s \in RigShapes : SetParentBegin(s)
    \/ SetParentBone
    \/ SetParentPoses
    \/ \E arma \in {0, 1} : LooseBegin(arma)
    \/ LooseStep
    \/ LoosePoses
    \/ Return

SpecRig == InitRig /\ [][NextRig]_vars

\* ================================================================ export
\* NifExporter writing the bones of an armature, objects[1], for one skinned
\* object, loaded_meshes[1], or as a bare skeleton, and ExportSkel writing
\* the skeleton as XML.  The exporter's game, scale and rename_bones are the
\* variables of the same name.

\* the bind and the pose position of the bones of the armatures exported
ExportBind(n) == IF n = Spine THEN Turned(1, 9) ELSE NodeXf(n)

ExportPoseXf(n) == IF n = Neck THEN Turned(3, 15) ELSE SkelXf(n)

\* the armatures exported, by the parent of each bone (nif names)
ExportHiers ==
    {\* a skeleton with a branch at the spine
     (Pelvis :> "") @@ (Spine :> Pelvis) @@ (Neck :> Spine) @@ (Skull :> Neck) @@ (Arm :> Spine),
     \* a chain
     (Spine :> "") @@ (Neck :> Spine) @@ (Skull :> Neck),
     \* two bones without parent
     (Spine :> "") @@ (Neck :> "") @@ (Skull :> Neck)}

ExportArma(par) ==
    Armature([bl \in {blender_name(n) : n \in DOMAIN par} |->
                 LET n == CHOOSE m \in DOMAIN par : blender_name(m) = bl
                 IN [matrix_local |-> get_pose_blender_xf(ExportBind(n), nif.game, scale),
                     matrix |-> get_pose_blender_xf(ExportPoseXf(n), nif.game, scale),
                     parent |-> IF par[n] = "" THEN "" ELSE blender_name(par[n])]],
             NoneXf)

\* the bones an object has vertex weights for, in vertex group order (nif names)
ExportWeightKeys == {<<Neck, Arm>>, <<Skull, Spine>>, <<Arm, Neck, Spine>>}

\* arma.data.bones.keys(): the bones of the armature in their order
BoneKeys(arma) == Listed([k \in 1..Len(NameOrder) |-> blender_name(NameOrder[k])],
                         DOMAIN arma.bones)

\* get_weights_by_bone(weights_by_vert, arma.data.bones.keys()).keys(): the
\* weighted groups that are bones of the armature
WeightsByBoneKeys(obj, arma) ==
    Listed([k \in 1..Len(obj.shape.used_bones) |-> blender_name(obj.shape.used_bones[k])],
           DOMAIN arma.bones)

\* NifExporter.nif_name
exporter_nif_name(bl) == IF rename_bones THEN DictNifName(bl) ELSE bl

\* pack_xf_to_buf(xf, scale_factor): the translation divided by the scale factor
pack_xf_to_buf(xf, scale_factor) == XF(xf.rot, xf.y \div scale_factor, xf.z \div scale_factor)

\* NodeParent that names the parent also when the hierarchy is not preserved
NodeParentAlways(parname) == parname

\* the parent a shape's bone is added with: parname if preserve_hierarchy else None
NodeParent(parname) == IF preserve_hierarchy_opt THEN parname ELSE ""

\* a node written to the nif by shape.add_bone or nif.add_node
NifNode(bone_name, nifname, tb, parname, by) ==
    [bone |-> bone_name, name |-> nifname, xf |-> tb, parent |-> parname, by |-> by]

\* write_bone that writes the bone itself before it writes its parents
RECURSIVE write_bone_then_parents(_, _, _, _, _)
write_bone_then_parents(st, has_shape, arma, bone_name, to_write) ==
    IF bone_name \in DOMAIN st.writtenbones
    THEN [st |-> st, ret |-> st.writtenbones[bone_name]]
    ELSE IF bone_name \notin to_write /\ ~preserve_hierarchy_opt
    THEN [st |-> st, ret |-> ""]
    ELSE LET bone_parent == arma.bones[bone_name].parent
             nifname == exporter_nif_name(bone_name)
             xf == get_bone_xform(arma, bone_name, nif.game, preserve_hierarchy_opt, export_pose)
             tb == pack_xf_to_buf(xf, scale)
             parname == IF bone_parent = "" THEN ""
                        ELSE IF bone_parent \notin to_write /\ ~preserve_hierarchy_opt THEN ""
                        ELSE exporter_nif_name(bone_parent)
             nodes ==
                 IF bone_name \in to_write /\ has_shape
                 THEN Append(st.nodes_written,
                             NifNode(bone_name, nifname, tb, NodeParent(parname), "add_bone"))
                 ELSE IF preserve_hierarchy_opt
                 THEN Append(st.nodes_written,
                             NifNode(bone_name, nifname, tb, parname, "add_node"))
                 ELSE st.nodes_written
             me == [writtenbones |-> (bone_name :> nifname) @@ st.writtenbones,
                    nodes_written |-> nodes]
             p == IF bone_parent # ""
                  THEN write_bone_then_parents(me, has_shape, arma, bone_parent, to_write)
                  ELSE [st |-> me, ret |-> ""]
         IN [st |-> p.st, ret |-> nifname]

\* write_bone(shape, arma, bone_name, bones_to_write): st = the exporter's
\* writtenbones and the nodes of the nif so far; returns them afterwards and
\* the name of the bone's node, "" for None
RECURSIVE write_bone(_, _, _, _, _)
write_bone(st, has_shape, arma, bone_name, to_write) ==
    IF bone_name \in DOMAIN st.writtenbones
    THEN [st |-> st, ret |-> st.writtenbones[bone_name]]
    ELSE IF bone_name \notin to_write /\ ~preserve_hierarchy_opt
    THEN [st |-> st, ret |-> ""]
    ELSE LET bone_parent == arma.bones[bone_name].parent
             p == IF bone_parent # ""
                  THEN write_bone(st, has_shape, arma, bone_parent, to_write)
                  ELSE [st |-> st, ret |-> ""]
             parname == p.ret
             nifname == exporter_nif_name(bone_name)
             xf == get_bone_xform(arma, bone_name, nif.game, preserve_hierarchy_opt, export_pose)
             tb == pack_xf_to_buf(xf, scale)
             nodes ==
                 IF bone_name \in to_write /\ has_shape
                 THEN Append(p.st.nodes_written,
                             NifNode(bone_name, nifname, tb, NodeParent(parname), "add_bone"))
                 ELSE IF preserve_hierarchy_opt
                 THEN Append(p.st.nodes_written,
                             NifNode(bone_name, nifname, tb, parname, "add_node"))
                 ELSE p.st.nodes_written
         IN [st |-> [writtenbones |-> (bone_name :> nifname) @@ p.st.writtenbones,
                     nodes_written |-> nodes],
             ret |-> nifname]

\* the skin-to-bone transform export_skin sets for a bone: the inverse of the
\* bone's bind position relative to the object
SkinToBone(obj, arma, bone_name) ==
    pack_xf_to_buf(
        inverted(MatMul(inverted(obj.matrix_world),
                        get_bone_xform(arma, bone_name, nif.game, FALSE, FALSE))),
        scale)

\* state of the exporter with its options set, an armature and one object
\* skinned to it
InitExport ==
    /\ create_bones = FALSE
    /\ rename_bones \in BOOLEAN
    /\ reference_skel = NoSkel
    /\ scale \in Scales
    /\ nif \in {[game |-> g, rootName |-> RootName,
                 nodes |-> (RootName :> Node("", Identity))] : g \in {"SKYRIM", "FO4"}}
    /\ objects \in {<<ExportArma(par)>> : par \in ExportHiers}
    /\ armature = 1
    /\ imported_armatures = <<>>
    /\ loaded_meshes \in
          {<<[shape |-> SkinnedShape(k, k, [i \in 1..Len(k) |-> Identity], NoneXf),
              matrix_world |-> mw, parent |-> 1]>> :
              k \in ExportWeightKeys, mw \in {Identity, Translate(1, 0)}}
    /\ warnings = <<>>
    /\ pc = "idle"
    /\ cur = 0
    /\ target = NoTarget
    /\ NoRig
    /\ preserve_hierarchy_opt \in BOOLEAN
    /\ export_pose \in BOOLEAN
    /\ writtenbones = <<>>
    /\ nodes_written = <<>>
    /\ bones_to_write = {}
    /\ bone_xforms = <<>>
    /\ skin_to_bone_written = <<>>
    /\ skel_xml = [bones |-> <<>>, parentIndices |-> <<>>, referencePose |-> <<>>]
    /\ scaled = [arg |-> NoneXf, sfN |-> 1, sfD |-> 1, result |-> NoneXf]

\* what no step of an export changes
UNCHANGED_exporter ==
    UNCHANGED <<create_bones, rename_bones, reference_skel, scale, nif, objects, armature,
                imported_armatures, loaded_meshes, warnings, cur, target, rigvars,
                preserve_hierarchy_opt, export_pose, scaled>>

\* get_bone_xforms(arma, bone_names, shape)
GetBoneXforms ==
    /\ pc = "idle"
    /\ bone_xforms = <<>>
    /\ bone_xforms' = [b \in DOMAIN Rig.bones |->
                          get_bone_xform(Rig, b, nif.game, preserve_hierarchy_opt, export_pose)]
    /\ UNCHANGED <<pc, writtenbones, nodes_written, bones_to_write, skin_to_bone_written,
                   skel_xml>>
    /\ UNCHANGED_exporter

\* export_skin: the skin's bones are found and writtenbones is emptied
ExportSkinBegin ==
    /\ pc = "idle"
    /\ nodes_written = <<>>
    /\ writtenbones' = <<>>
    /\ todo' = WeightsByBoneKeys(loaded_meshes[1], Rig)
    /\ bones_to_write' = Range(WeightsByBoneKeys(loaded_meshes[1], Rig))
    /\ pc' = "export_skin"
    /\ UNCHANGED <<nodes_written, bone_xforms, skin_to_bone_written, skel_xml>>
    /\ UNCHANGED <<create_bones, rename_bones, reference_skel, scale, nif, objects, armature,
                   imported_armatures, loaded_meshes, warnings, cur, target,
                   bones_to_parent, idx, new_bone_list, skin, pose_list, objects_created,
                   loose, history, preserve_hierarchy_opt, export_pose, scaled>>

\* one round of "for bone_name in weights_by_bone.keys(): self.write_bone(...)"
\* of export_skin (has_shape) or of "for b in arma.data.bones" of export_armature
WriteBoneStep(has_shape) ==
    /\ pc = IF has_shape THEN "export_skin" ELSE "export_armature"
    /\ todo # <<>>
    /\ LET r == write_bone([writtenbones |-> writtenbones, nodes_written |-> nodes_written],
                           has_shape, Rig, Head(todo), bones_to_write)
       IN /\ writtenbones' = r.st.writtenbones
          /\ nodes_written' = r.st.nodes_written
    /\ todo' = Tail(todo)
    /\ UNCHANGED <<pc, bones_to_write, bone_xforms, skin_to_bone_written, skel_xml>>
    /\ UNCHANGED <<create_bones, rename_bones, reference_skel, scale, nif, objects, armature,
                   imported_armatures, loaded_meshes, warnings, cur, target,
                   bones_to_parent, idx, new_bone_list, skin, pose_list, objects_created,
                   loose, history, preserve_hierarchy_opt, export_pose, scaled>>

\* the second loop of export_skin: the skin-to-bone transform of every
\* weighted bone, from its bind position
ExportSkinBind ==
    /\ pc = "export_skin"
    /\ todo = <<>>
    /\ skin_to_bone_written' =
          [b \in bones_to_write |-> SkinToBone(loaded_meshes[1], Rig, b)]
    /\ writtenbones' = [b \in DOMAIN writtenbones \cup bones_to_write |-> exporter_nif_name(b)]
    /\ pc' = "exported"
    /\ UNCHANGED <<nodes_written, bones_to_write, bone_xforms, skel_xml>>
    /\ UNCHANGED_exporter

\* export_armature(arma): the armature without shapes
ExportArmatureBegin ==
    /\ pc = "idle"
    /\ nodes_written = <<>>
    /\ writtenbones' = <<>>
    /\ todo' = BoneKeys(Rig)
    /\ bones_to_write' = DOMAIN Rig.bones
    /\ pc' = "export_armature"
    /\ UNCHANGED <<nodes_written, bone_xforms, skin_to_bone_written, skel_xml>>
    /\ UNCHANGED <<create_bones, rename_bones, reference_skel, scale, nif, objects, armature,
                   imported_armatures, loaded_meshes, warnings, cur, target,
                   bones_to_parent, idx, new_bone_list, skin, pose_list, objects_created,
                   loose, history, preserve_hierarchy_opt, export_pose, scaled>>

ExportArmatureEnd ==
    /\ pc = "export_armature"
    /\ todo = <<>>
    /\ pc' = "exported"
    /\ UNCHANGED <<writtenbones, nodes_written, bones_to_write, bone_xforms,
                   skin_to_bone_written, skel_xml>>
    /\ UNCHANGED_exporter

\* ------------------------------------------------- ExportSkel.write_skel
\* find_root(bones): the first bone whose parent is not among the bones
find_root(arma, bones) ==
    LET roots == SelectSeq(bones, LAMBDA b : arma.bones[b].parent \notin Range(bones))
    IN IF roots # <<>> THEN Head(roots) ELSE Head(bones)

\* write_parentindices(skel, bones): range(-1, len(bones) - 1)
write_parentindices(bones) == [k \in 1..Len(bones) |-> k - 2]

\* the translation rotated by adjust_mx, a quarter turn about x; the rotation
\* is written as it is
PoseEntry(mx) == XF(mx.rot, RotY(1, mx.y, mx.z), RotZ(1, mx.y, mx.z))

\* write_pose(skel, bones): the bone's bind matrix, relative to its parent's
\* if it has a parent
write_pose(arma, bones) ==
    [k \in 1..Len(bones) |->
        LET b == arma.bones[bones[k]]
            mx == IF b.parent # ""
                  THEN MatMul(inverted(arma.bones[b.parent].matrix_local), b.matrix_local)
                  ELSE b.matrix_local
        IN PoseEntry(mx)]

\* write_skel with the bones sel selected in the armature
WriteSkel(sel) ==
    /\ pc = "idle"
    /\ skel_xml.bones = <<>>
    /\ sel # {}
    /\ sel \subseteq DOMAIN Rig.bones
    /\ LET bones == Listed(BoneKeys(Rig), sel)
       IN skel_xml' = [name |-> find_root(Rig, bones),
                       bones |-> bones,
                       parentIndices |-> write_parentindices(bones),
                       referencePose |-> write_pose(Rig, bones)]
    /\ UNCHANGED <<pc, writtenbones, nodes_written, bones_to_write, bone_xforms,
                   skin_to_bone_written>>
    /\ UNCHANGED_exporter

\* the bones that may be selected
ExportSelections == SUBSET {blender_name(n) : n \in {Pelvis, Spine, Neck, Skull, Arm}}

NextExport ==
    \/ GetBoneXforms
    \/ ExportSkinBegin
    \/ WriteBoneStep(TRUE)
    \/ ExportSkinBind
    \/ ExportArmatureBegin
    \/ WriteBoneStep(FALSE)
    \/ ExportArmatureEnd
    \/ \E sel \in ExportSelections : WriteSkel(sel)

SpecExport == InitExport /\ [][NextExport]_vars

\* ------------------------------------------- apply_scale_transl on its own
\* a matrix with a scale component: a rigid transform and the scale
\* xf.decompose() takes from it
ScaledMatrix(xf, sc) == [xf |-> xf, scale |-> sc]

\* apply_scale_transl for a matrix with a scale component:
\* MatrixLocRotScale(loc * sf, rot, scale)
apply_scale_transl_scaled(m, sfN, sfD) ==
    ScaledMatrix(apply_scale_transl(m.xf, sfN, sfD), m.scale)

\* the scale factors tried: 1, 2, 3 and 1/2
ScaleFactors == {<<1, 1>>, <<2, 1>>, <<3, 1>>, <<1, 2>>}

\* the matrices tried: every quarter turn, translations a multiple of two
\* lattice steps, three scale components
ScaleArgs ==
    {ScaledMatrix(XF(r, 2 * y, 2 * z), sc) :
        r \in 0..3, y \in -2..2, z \in -2..2, sc \in 1..3}

InitScale ==
    /\ create_bones = FALSE
    /\ rename_bones = RENAME_BONES_DEF
    /\ reference_skel = NoSkel
    /\ scale = 1
    /\ nif = NifFile("SKYRIM", Identity, Identity)
    /\ objects = <<>>
    /\ armature = 0
    /\ imported_armatures = <<>>
    /\ loaded_meshes = <<>>
    /\ warnings = <<>>
    /\ pc = "idle"
    /\ cur = 0
    /\ target = NoTarget
    /\ NoRig
    /\ preserve_hierarchy_opt = FALSE
    /\ export_pose = FALSE
    /\ writtenbones = <<>>
    /\ nodes_written = <<>>
    /\ bones_to_write = {}
    /\ bone_xforms = <<>>
    /\ skin_to_bone_written = <<>>
    /\ skel_xml = [bones |-> <<>>, parentIndices |-> <<>>, referencePose |-> <<>>]
    /\ scaled \in {[arg |-> m, sfN |-> sf[1], sfD |-> sf[2], result |-> NoneXf] :
                      m \in ScaleArgs, sf \in ScaleFactors}

\* apply_scale_transl(xf, sf)
ApplyScaleTransl ==
    /\ pc = "idle"
    /\ scaled' = [scaled EXCEPT !.result = apply_scale_transl_scaled(scaled.arg, scaled.sfN,
                                                                     scaled.sfD)]
    /\ pc' = "done"
    /\ UNCHANGED <<create_bones, rename_bones, reference_skel, scale, nif, objects, armature,
                   imported_armatures, loaded_meshes, warnings, cur, target, rigvars,
                   preserve_hierarchy_opt, export_pose, writtenbones, nodes_written,
                   bones_to_write, bone_xforms, skin_to_bone_written, skel_xml>>

NextScale == ApplyScaleTransl

SpecScale == InitScale /\ [][NextScale]_vars

\* ===================================================== properties checked
\* ---- Rig Compatibility Matcher: the state right after find_compatible_arma
\* (pc = "parent"); obj and the candidate list are those of the call.
Matched == pc = "parent"
MObj == loaded_meshes[cur]
FirstArma == objects[Head(imported_armatures)]

\* the bones of the shape that exist in the rig
CommonBones(obj, arma) ==
    {b \in Range(obj.shape.bone_names) : blender_name(b) \in DOMAIN arma.bones}

\* the rig's global bind position of bone b, back in nif orientation
RigBoneXf(arma, b) == get_bone_global_xf(arma, blender_name(b), nif.game, FALSE)

BoneMatches(obj, arma, b) == MatNearEqualDef(ShapeBoneXf(obj, b), RigBoneXf(arma, b))

\* the delta by which the shape's bind position of b differs from the rig's
Delta(obj, arma, b) == MatMul(ShapeBoneXf(obj, b), inverted(RigBoneXf(arma, b)))

\* Compatible: every common bone matches
RigCompatible(obj, arma) == \A b \in CommonBones(obj, arma) : BoneMatches(obj, arma, b)

\* every common bone mismatches, all by one and the same delta
RigOffsetBy(obj, arma) ==
    /\ CommonBones(obj, arma) # {}
    /\ \A b \in CommonBones(obj, arma) : ~BoneMatches(obj, arma, b)
    /\ \A b1, b2 \in CommonBones(obj, arma) :
          MatNearEqualDef(Delta(obj, arma, b1), Delta(obj, arma, b2))

\* C1 (as claimed): when every bone the shape shares with the candidate rig
\* mismatches it by one and the same delta D, find_compatible_arma returns the
\* rig together with the offset D.
C1_OffsetReturned ==
    (Matched /\ imported_armatures # <<>> /\ RigOffsetBy(MObj, FirstArma))
        => /\ target.arma = Head(imported_armatures)
           /\ \A b \in CommonBones(MObj, FirstArma) :
                 MatNearEqualDef(target.xf, Delta(MObj, FirstArma, b))

\* C2: when every bone the shape shares with the candidate rig has the same
\* global bind position in the shape as in the rig, find_compatible_arma
\* returns that rig with no offset.
C2_CompatibleNoOffset ==
    (Matched /\ imported_armatures # <<>> /\ RigCompatible(MObj, FirstArma))
        => target = [arma |-> Head(imported_armatures), xf |-> NoneXf]

C2_Witness ==
    /\ Matched /\ imported_armatures # <<>>
    /\ Cardinality(CommonBones(MObj, FirstArma)) = 2
    /\ RigCompatible(MObj, FirstArma)
    /\ target.arma = Head(imported_armatures)

\* C3: when two bones the shape shares with the candidate rig differ from the
\* rig by different deltas, find_compatible_arma returns no rig and no offset.
C3_DifferentDeltasIncompatible ==
    (/\ Matched /\ imported_armatures # <<>>
     /\ \E b1, b2 \in CommonBones(MObj, FirstArma) :
           ~MatNearEqualDef(Delta(MObj, FirstArma, b1), Delta(MObj, FirstArma, b2)))
        => target = NoTarget

C3_Witness ==
    /\ Matched /\ imported_armatures # <<>>
    /\ \E b1, b2 \in CommonBones(MObj, FirstArma) :
          /\ ~BoneMatches(MObj, FirstArma, b1)
          /\ ~BoneMatches(MObj, FirstArma, b2)
          /\ ~MatNearEqualDef(Delta(MObj, FirstArma, b1), Delta(MObj, FirstArma, b2))
    /\ target = NoTarget

\* position of armature a in the candidate list
ListPos(a) == CHOOSE i \in 1..Len(imported_armatures) : imported_armatures[i] = a

\* C4: a rig returned by find_compatible_arma is a candidate of the list, it
\* is compatible with the shape, and no candidate before it in the list is.
C4_FirstQualifyingWins ==
    (Matched /\ target.arma # 0)
        => /\ target.arma \in Range(imported_armatures)
           /\ RigCompatible(MObj, objects[target.arma])
           /\ \A j \in 1..(ListPos(target.arma) - 1) :
                 ~RigCompatible(MObj, objects[imported_armatures[j]])

\* a rig is returned from a list in which a later candidate qualifies too
C4_Witness ==
    /\ Matched /\ target.arma # 0
    /\ Len(imported_armatures) = 2
    /\ CommonBones(MObj, objects[imported_armatures[2]]) # {}
    /\ RigCompatible(MObj, objects[imported_armatures[2]])

\* C5: when the candidate list is empty or its first rig is not compatible,
\* find_compatible_arma returns (None, None), whatever the later candidates.
C5_StopsAtFirstFailure ==
    (Matched /\ (imported_armatures = <<>> \/ ~RigCompatible(MObj, FirstArma)))
        => target = NoTarget

\* the first rig fails, a later one is compatible, and nothing is returned
C5_Witness ==
    /\ Matched /\ Len(imported_armatures) = 2
    /\ ~RigCompatible(MObj, FirstArma)
    /\ CommonBones(MObj, objects[imported_armatures[2]]) # {}
    /\ RigCompatible(MObj, objects[imported_armatures[2]])
    /\ target = NoTarget

\* ---- Shape Placement Calculator: the state after calc_obj_transform was
\* applied to one shape (pc = "placed")
Placed == pc = "placed"
PShape == loaded_meshes[1].shape
Placement == loaded_meshes[1].matrix_world
FirstUsed(shape) == Head(shape.used_bones)

\* the used bones that exist in the reference skeleton
RefBones(shape) ==
    {b \in Range(shape.used_bones) : b \in DOMAIN reference_skel.nodes}

\* referenceGlobalBind(bone) @ inverse(bindPositionInShape(bone))
RefOffset(shape, b) ==
    MatMul(reference_skel.nodes[b].xform_to_global, inverted(bind_position(shape, b)))

RefOffsetsAgree(shape) ==
    \A b1, b2 \in RefBones(shape) :
        MatNearEqualDef(RefOffset(shape, b1), RefOffset(shape, b2))

\* step 2 is the one to decide: skinned, no global-to-skin, extendMissingBones
\* on, reference skeleton available
Step2Applies(shape) ==
    /\ shape.has_skin_instance
    /\ ~shape.has_global_to_skin
    /\ create_bones
    /\ reference_skel.present

Step2Consistent(shape) ==
    Step2Applies(shape) /\ RefBones(shape) # {} /\ RefOffsetsAgree(shape)

\* every used bone's pose transform is within 0.5 of the first used bone's
PoseSame(shape) ==
    \A b \in Range(shape.used_bones) :
        MatNearEqual(pose_transform(shape, FirstUsed(shape)), pose_transform(shape, b), 1, 2)

\* what steps 3 and 4 give for a shape with used bones
Step3Result(shape) ==
    IF PoseSame(shape)
    THEN apply_scale_xf(inverted(pose_transform(shape, FirstUsed(shape))), scale)
    ELSE Identity

\* C6 (as claimed): for a skinned shape with a global-to-skin transform the
\* placement is the inverse of that transform (scale applied to the
\* translation), whatever the reference skeleton, create_bones and the bones.
C6_GlobalToSkinUsedDirectly ==
    (Placed /\ PShape.has_skin_instance /\ PShape.has_global_to_skin)
        => Placement = apply_scale_xf(inverted(PShape.global_to_skin), scale)

\* C7: with no global-to-skin, create_bones on and a reference skeleton that
\* has some used bone: if the offsets reference @ inverse(bind) of those bones
\* agree, that offset is the placement; if not, the placement is what the
\* pose-consistency check of steps 3 and 4 gives.
C7_ReferenceOffset ==
    (Placed /\ Step2Applies(PShape) /\ RefBones(PShape) # {})
        => IF RefOffsetsAgree(PShape)
           THEN \E b \in RefBones(PShape) :
                   Placement = apply_scale_xf(RefOffset(PShape, b), scale)
           ELSE Placement = Step3Result(PShape)

\* the offset is shared by two bones of the reference skeleton and is applied
C7_Witness ==
    /\ Placed /\ Step2Applies(PShape)
    /\ Cardinality(RefBones(PShape)) = 2
    /\ RefOffsetsAgree(PShape)
    /\ Placement # Identity

\* C8: with no global-to-skin and no consistent reference offset, when the
\* pose transforms of the used bones are the same within 0.5, the placement
\* is the inverse of that pose transform.
C8_PoseOffsetInverted ==
    (/\ Placed /\ PShape.has_skin_instance /\ ~PShape.has_global_to_skin
     /\ ~Step2Consistent(PShape)
     /\ PShape.used_bones # <<>>
     /\ PoseSame(PShape))
        => Placement = apply_scale_xf(inverted(pose_transform(PShape, FirstUsed(PShape))), scale)

\* two used bones whose pose transforms differ, but by less than 0.5
C8_Witness ==
    /\ Placed /\ PShape.has_skin_instance /\ ~PShape.has_global_to_skin
    /\ ~Step2Consistent(PShape)
    /\ Len(PShape.used_bones) = 2
    /\ PoseSame(PShape)
    /\ pose_transform(PShape, Spine) # pose_transform(PShape, Neck)
    /\ Placement # Identity

\* C9: with no global-to-skin, no consistent reference offset and pose
\* transforms that are not all the same, the placement is the identity.
C9_IdentityFallback ==
    (/\ Placed /\ PShape.has_skin_instance /\ ~PShape.has_global_to_skin
     /\ ~Step2Consistent(PShape)
     /\ ~PoseSame(PShape))
        => Placement = Identity

\* the reference offsets disagree and so do the poses
C9_Witness ==
    /\ Placed /\ Step2Applies(PShape)
    /\ RefBones(PShape) # {}
    /\ ~RefOffsetsAgree(PShape)
    /\ ~PoseSame(PShape)
    /\ Placement = Identity

\* ---- End-to-end scenario
\* the shape of the scenario: Spine bound at translate(0,0,8), Neck at
\* translate(0,0,13)
ScenarioShape ==
    SkinnedShape(<<Spine, Neck>>, <<Spine, Neck>>,
                 <<Translate(8, 0), Translate(13, 0)>>, NoneXf)

\* C10: with create_bones on and the reference skeleton Spine (0,0,10), Neck
\* (0,0,15), the scenario's shape is placed at translate(0,0,2), and once it is
\* parented its armature has both bones at the reference bind positions.
C10_Scenario ==
    \A i \in 1..Len(loaded_meshes) :
        (loaded_meshes[i].shape = ScenarioShape /\ create_bones /\ reference_skel = RefSkel)
            => /\ loaded_meshes[i].matrix_world = apply_scale_xf(Translate(2, 0), scale)
               /\ loaded_meshes[i].parent # 0 =>
                     \A b \in {Spine, Neck} :
                        /\ blender_name(b) \in DOMAIN objects[loaded_meshes[i].parent].bones
                        /\ RigBoneXf(objects[loaded_meshes[i].parent], b) =
                              apply_scale_transl(reference_skel.nodes[b].xform_to_global, scale, 1)
                        /\ RigBoneXf(objects[loaded_meshes[i].parent], b) #
                              apply_scale_transl(bind_position(ScenarioShape, b), scale, 1)

\* the scenario's shape got an armature made for it, next to an older one
C10_Witness ==
    /\ Len(loaded_meshes) >= 1 /\ Len(objects) = 2
    /\ loaded_meshes[1].shape = ScenarioShape
    /\ create_bones /\ reference_skel = RefSkel
    /\ loaded_meshes[1].parent = 2
    /\ DOMAIN objects[2].bones = {blender_name(Spine), blender_name(Neck)}

\* ------------------------------------------------- Rig Builder properties
\* the running (or just ended) operation
LastOp == IF history = <<>> THEN "" ELSE history[1].op

Creations == {k \in 1..Len(history) : history[k].ev = "create"}

PoseEvents == {k \in 1..Len(history) : history[k].ev = "pose"}

\* the bones made by the running operation
NewBones == {history[k].bone : k \in Creations}

\* the place in the history at which bone b was made
CreatedAt(b) == CHOOSE k \in Creations : history[k].bone = b

InConnect == pc \in {"connect", "done"} /\ LastOp = "connect_armature"

\* the parent of bone b in the rig, "" for none
ParentOf(b) == Rig.bones[b].parent

RECURSIVE ReachesTop(_, _, _)
ReachesTop(f, n, k) ==
    \/ n \notin DOMAIN f.nodes
    \/ k > 0 /\ ReachesTop(f, f.nodes[n].parent, k - 1)

AcyclicFile(f) ==
    \A n \in DOMAIN f.nodes : ReachesTop(f, n, Cardinality(DOMAIN f.nodes))

\* every parent is a bone of the armature and no bone is its own ancestor
Forest(arma) ==
    \A b \in DOMAIN arma.bones :
        IF arma.bones[b].parent = "" THEN TRUE
        ELSE /\ arma.bones[b].parent \in DOMAIN arma.bones
             /\ ~IsAbove(arma, b, arma.bones[b].parent, Cardinality(DOMAIN arma.bones))

C13_ConnectTerminates == (pc = "connect") ~> (pc = "done")

\* a pass over the two bones of the nif's cycle has ended
C13_Witness ==
    /\ InConnect /\ pc = "done"
    /\ ~AcyclicFile(nif)
    /\ {blender_name(Spine), blender_name(Neck)} \subseteq DOMAIN Rig.bones
    /\ idx = Len(bones_to_parent) + 1

\* the parent found for some bone of the rig hangs below that bone
CycleFound ==
    \E b \in DOMAIN Rig.bones :
        /\ FindParent(b) # ""
        /\ blender_name(FindParent(b)) \in DOMAIN Rig.bones
        /\ IsAbove(Rig, b, blender_name(FindParent(b)), Cardinality(DOMAIN Rig.bones))

\* C14 (as claimed): a connect_armature pass that meets a cyclic parent
\* relation reports a CyclicHierarchy error and leaves no cycle in the rig.
C14_CyclicReported ==
    (InConnect /\ idx > Len(bones_to_parent) /\ CycleFound)
        => /\ pc = "raised" \/ \E k \in 1..Len(warnings) : warnings[k] = "CyclicHierarchy"
           /\ Forest(Rig)

\* C15: add_bone_to_arma for a bone name the rig already has changes nothing,
\* whatever nif name it is called with: the bones, their bind and pose
\* transforms and parents stay, and no warning or error is raised.
C15_AddBoneIdempotent ==
    [][\A p \in AddBonePairs :
          (AddBoneToArma(p[1], p[2]) /\ p[1] \in DOMAIN Rig.bones)
              => /\ objects' = objects
                 /\ warnings' = warnings
                 /\ pc' # "raised"]_vars

\* add_bone_to_arma was called for a posed bone of the rig, under the nif name
\* of another bone
C15_Witness ==
    /\ pc = "done"
    /\ history = <<Event("call", "add_bone_to_arma", Neck, blender_name(Spine))>>
    /\ Rig.bones[blender_name(Spine)].matrix # Rig.bones[blender_name(Spine)].matrix_local

\* the bind matrix of a bone made from nif transform xf
BindOf(xf) == MatMul(apply_scale_transl(xf, scale, 1), game_rotations(nif.game)[1])

\* the transform of the bone in the file: the node's global transform, in
\* set_parent_arma the bone's bind position in the shape
SourceXf(e) ==
    IF e.op = "set_parent_arma"
    THEN bind_position(loaded_meshes[Len(loaded_meshes)].shape, e.nifname)
    ELSE nif.nodes[e.nifname].xform_to_global

\* the rig-level skin offset, without the import scale
SkinOffset(e) ==
    IF e.op = "set_parent_arma" THEN skin.skin_xf
    ELSE apply_scale_transl(IF Rig.PYN_TRANSFORM = NoneXf THEN Identity
                            ELSE Rig.PYN_TRANSFORM, 1, scale)

InReference(e) ==
    create_bones /\ reference_skel.present /\ e.nifname \in DOMAIN reference_skel.nodes

\* C16 (as claimed): a bone made with create_bones on and a reference skeleton
\* that has its nif name gets the reference skeleton's bind transform; every
\* other bone gets the file's transform combined with the skin offset.
C16_BindFromReference ==
    \A k \in Creations :
        LET e == history[k]
        IN Rig.bones[e.bone].matrix_local =
              IF InReference(e)
              THEN BindOf(reference_skel.nodes[e.nifname].xform_to_global)
              ELSE BindOf(MatMul(SkinOffset(e), SourceXf(e)))

\* C16 (amended): as claimed, but set_parent_arma takes the reference
\* skeleton's transform only for a shape that is compatible with the
\* reference skeleton (is_compatible_skeleton); for an incompatible shape the
\* bone gets the shape's bind position combined with the skin offset.
C16_BindFromCompatibleReference ==
    \A k \in Creations :
        LET e == history[k]
        IN Rig.bones[e.bone].matrix_local =
              IF InReference(e) /\ (e.op = "set_parent_arma" => skin.ref_compat)
              THEN BindOf(reference_skel.nodes[e.nifname].xform_to_global)
              ELSE BindOf(MatMul(SkinOffset(e), SourceXf(e)))

\* set_parent_arma made a bone the reference skeleton has for a shape that is
\* not compatible with it
C16_Witness ==
    /\ LastOp = "set_parent_arma" /\ ~skin.ref_compat
    /\ \E k \in Creations : InReference(history[k])

\* C17: no step of the Rig Builder removes a bone or changes the bind
\* transform of a bone the rig has.
C17_BonesAndBindsKept ==
    [][\A b \in DOMAIN Rig.bones :
          /\ b \in DOMAIN objects'[1].bones
          /\ objects'[1].bones[b].matrix_local = Rig.bones[b].matrix_local]_vars

\* a bone of the rig had its pose overwritten by an operation that also made bones
C17_Witness ==
    /\ pc = "done"
    /\ Creations # {}
    /\ \E k \in PoseEvents :
          /\ history[k].bone \notin NewBones
          /\ Rig.bones[history[k].bone].matrix # Rig.bones[history[k].bone].matrix_local

\* the parent assignment of bone b to p is refused: p is b or hangs below it
Refused(b, p) ==
    p \in DOMAIN Rig.bones /\ IsAbove(Rig, b, p, Cardinality(DOMAIN Rig.bones))

PoseOf(bn) ==
    MatMul(apply_scale_transl(nif.nodes[bn].xform_to_global, scale, 1),
           game_rotations(nif.game)[1])

Posed(e) == \E k \in PoseEvents : history[k].nifname = e[1] /\ history[k].bone = e[2]

BatchOps == {"add_bones_to_arma", "set_parent_arma", "connect_armature",
             "import_loose_ninodes"}

\* C20: in a batch operation no bone is made after the first pose write, and
\* the one pose pass at the end writes each bone at most once and reaches
\* every bone the batch made that has an NiNode in the nif.
C20_PosesAfterCreations ==
    LastOp \in BatchOps =>
        /\ \A j \in PoseEvents : \A k \in Creations : k < j
        /\ \A j, k \in PoseEvents : history[j].bone = history[k].bone => j = k
        /\ PoseEvents # {} => pc = "done"
        /\ pc = "done" =>
              \A k \in Creations :
                  LET e == history[k]
                  IN (/\ e.nifname \in DOMAIN nif.nodes
                      /\ nif.nodes[e.nifname].blockname = "NiNode")
                        => \E j \in PoseEvents : history[j].bone = e.bone

\* set_parent_arma made two bones and then posed both
C20_Witness ==
    /\ pc = "done" /\ LastOp = "set_parent_arma"
    /\ Cardinality(Creations) = 2
    /\ Cardinality(PoseEvents) = 2

\* ------------------------------------------------- warnings of the import
\* the skinning loop of import_nif has gone through all objects
SkinningDone == pc = "skin" /\ cur > Len(loaded_meshes)

\* calc_obj_transform ended in its last case for this shape: no consistent
\* offset from the reference skeleton and no common pose offset
PlacementInconsistent(s) ==
    /\ s.has_skin_instance
    /\ ~ReferenceStep(s).offset_consistent
    /\ ~PoseLoop(s, s.used_bones, NoneXf).same

\* the reference skeleton does not fit the shape of this object, as
\* set_parent_arma found it
SkeletonIncompatible(obj) ==
    /\ obj.shape.has_skin_instance
    /\ reference_skel.present
    /\ ~is_compatible_skeleton(apply_scale_transl(obj.matrix_world, 1, scale),
                               obj.shape, reference_skel)

\* C21 (as claimed): when the import of a shape found an inconsistent offset
\* (calc_obj_transform ended in its inconsistent case, or the reference
\* skeleton is not compatible with the shape), the importer's warnings list
\* holds a warning when the pass over the shapes is done, and nothing was raised.
C21_InconsistentWarned ==
    /\ pc # "raised"
    /\ SkinningDone =>
          \A k \in 1..Len(loaded_meshes) :
              (PlacementInconsistent(loaded_meshes[k].shape)
                  \/ SkeletonIncompatible(loaded_meshes[k]))
                 => warnings # <<>>

\* ------------------------------------------------------ export properties
\* the transform in the nif's space that bone bl of the exported armature
\* stands for, at bind or at pose position
NifSpaceXf(bl, use_pose) ==
    IF use_pose THEN ExportPoseXf(nif_name(bl)) ELSE ExportBind(nif_name(bl))

\* the same in Blender's length unit: the bone's global transform
GlobalXf(bl, use_pose) == apply_scale_transl(NifSpaceXf(bl, use_pose), scale, 1)

\* C22: get_bone_xform with preserve_hierarchy on returns, for a bone with a
\* parent, the bone's global transform relative to the parent's global
\* transform, both at pose or both at bind position; for every other bone and
\* with preserve_hierarchy off it returns the bone's global transform.
C22_RelativeTransform ==
    bone_xforms # <<>> =>
        \A b \in DOMAIN Rig.bones :
            LET p == Rig.bones[b].parent
            IN IF preserve_hierarchy_opt /\ p # ""
               THEN MatMul(GlobalXf(p, export_pose), bone_xforms[b]) = GlobalXf(b, export_pose)
               ELSE bone_xforms[b] = GlobalXf(b, export_pose)

\* the transforms were taken at pose position with the hierarchy preserved,
\* for a turned parent whose pose differs from its bind position
C22_Witness ==
    /\ bone_xforms # <<>> /\ preserve_hierarchy_opt /\ export_pose
    /\ \E b \in DOMAIN Rig.bones :
          LET p == Rig.bones[b].parent
          IN /\ p # ""
             /\ GlobalXf(p, TRUE).rot # 0
             /\ GlobalXf(p, TRUE) # GlobalXf(p, FALSE)
             /\ bone_xforms[b] # GlobalXf(b, TRUE)

\* C23: a bone is written to the nif with a parent exactly when
\* preserve_hierarchy is on and the bone has a parent; then the parent named
\* is the bone's parent, written before, and the transform is relative to it;
\* every other bone written has its global transform and no parent.
C23_StoredConsistently ==
    \A k \in 1..Len(nodes_written) :
        LET w == nodes_written[k]
            p == Rig.bones[w.bone].parent
        IN /\ (w.parent # "") <=> (preserve_hierarchy_opt /\ p # "")
           /\ IF w.parent # ""
              THEN /\ w.parent = exporter_nif_name(p)
                   /\ \E j \in 1..(k - 1) : nodes_written[j].bone = p
                   /\ MatMul(NifSpaceXf(p, export_pose), w.xf) = NifSpaceXf(w.bone, export_pose)
              ELSE w.xf = NifSpaceXf(w.bone, export_pose)

\* a skin was exported with the hierarchy preserved: a bone of the shape was
\* written relative to its parent, a bone without parent globally, and a bone
\* the shape has no weights for as a plain node
C23_Witness ==
    /\ pc = "exported" /\ preserve_hierarchy_opt /\ scale = 2
    /\ \E k \in 1..Len(nodes_written) :
          nodes_written[k].parent # "" /\ nodes_written[k].by = "add_bone"
    /\ \E k \in 1..Len(nodes_written) : nodes_written[k].parent = ""
    /\ \E k \in 1..Len(nodes_written) : nodes_written[k].by = "add_node"

\* C27: of a bone and its armature parent that are both written to the nif
\* in one export_skin or export_armature, the parent is written first, and
\* no bone is written twice.
C27_ParentsWrittenFirst ==
    \A j, k \in 1..Len(nodes_written) :
        /\ Rig.bones[nodes_written[k].bone].parent = nodes_written[j].bone => j < k
        /\ nodes_written[j].bone = nodes_written[k].bone => j = k

\* a skin was exported whose weights list a bone before its parent, and both
\* were written
C27_Witness ==
    /\ pc = "exported" /\ skin_to_bone_written # <<>>
    /\ LET keys == WeightsByBoneKeys(loaded_meshes[1], Rig)
       IN \E i, j \in 1..Len(keys) :
             /\ i < j
             /\ Rig.bones[keys[i]].parent = keys[j]
             /\ \E k \in 1..Len(nodes_written) : nodes_written[k].bone = keys[i]
             /\ \E k \in 1..Len(nodes_written) : nodes_written[k].bone = keys[j]

\* C30 (as claimed): the parentIndices entry of each bone of the skeleton XML
\* is the index, in the list of exported bones, of the bone's armature parent,
\* to which its referencePose entry is relative, and -1 for a bone without
\* parent.
C30_ParentIndices ==
    \A k \in 1..Len(skel_xml.bones) :
        LET p == Rig.bones[skel_xml.bones[k]].parent
        IN IF p = "" THEN skel_xml.parentIndices[k] = -1
           ELSE \E j \in 1..Len(skel_xml.bones) :
                   skel_xml.bones[j] = p /\ skel_xml.parentIndices[k] = j - 1

\* ------------------------------------------------------ apply_scale_transl
\* C24: apply_scale_transl(T, s) has the rotation and the scale component of
\* T, and T's translation multiplied by s.
C24_OnlyTranslationScaled ==
    scaled.result # NoneXf =>
        /\ scaled.result.xf.rot = scaled.arg.xf.rot
        /\ scaled.result.scale = scaled.arg.scale
        /\ scaled.result.xf.y * scaled.sfD = scaled.arg.xf.y * scaled.sfN
        /\ scaled.result.xf.z * scaled.sfD = scaled.arg.xf.z * scaled.sfN

\* a turned, scaled matrix with a translation was halved
C24_Witness ==
    /\ scaled.result # NoneXf
    /\ scaled.sfN = 1 /\ scaled.sfD = 2
    /\ scaled.arg.xf.rot = 1 /\ scaled.arg.scale = 2
    /\ scaled.arg.xf.z # 0 /\ scaled.arg.xf.y # 0
    /\ scaled.result.xf # scaled.arg.xf

\* ------------------------------------------- skinning in import_nif
\* the skin transform set_parent_arma used for a parented object
ObjSkinXf(obj) == apply_scale_transl(obj.matrix_world, 1, scale)

\* C25 (as claimed): after set_parent_arma every bone the shape uses is a
\* bone of the armature the object is parented to, at its bind position,
\* with and without a reference skeleton.
C25_ShapeBonesAdded ==
    \A k \in 1..Len(loaded_meshes) :
        LET obj == loaded_meshes[k]
        IN obj.parent # 0 =>
              \A b \in Range(obj.shape.bone_names) :
                  /\ blender_name(b) \in DOMAIN objects[obj.parent].bones
                  /\ MatNearEqual(
                        objects[obj.parent].bones[blender_name(b)].matrix_local,
                        get_pose_blender_xf(MatMul(ObjSkinXf(obj), bind_position(obj.shape, b)),
                                            nif.game, scale),
                        1, 100)

\* C26 (as claimed): the skin transform returned for an object parented to an
\* armature is the transform the armature records: the object's own
\* transform only for the first object parented to it.
C26_ArmatureTransformUsed ==
    \A k \in 1..Len(loaded_meshes) :
        loaded_meshes[k].parent # 0 =>
            loaded_meshes[k].matrix_world = objects[loaded_meshes[k].parent].PYN_TRANSFORM

\* s is the beginning of t
IsPrefix(s, t) == Len(s) <= Len(t) /\ \A k \in 1..Len(s) : s[k] = t[k]

C28_Closure ==
    [][(/\ pc = "connect" /\ pc' = "connect"
        /\ idx' = idx + 1
        /\ ParentOf(bones_to_parent[idx]) = ""
        /\ NifParent(bones_to_parent[idx]) # "")
        => LET b == bones_to_parent[idx]
               np == blender_name(NifParent(b))
           IN /\ np \in DOMAIN objects'[1].bones
              /\ objects'[1].bones[b].parent = np
      ]_vars

\* ------------------------------------ connect_armature run to its end
\* the armature is filled by add_bone_to_arma and add_bones_to_arma and then
\* connected, as import_nif does for each armature
NextConnect ==
    \/ \E p \in AddBonePairs : AddBoneToArma(p[1], p[2])
    \/ AddBonesBegin
    \/ AddBonesStep
    \/ AddBonesPoses
    \/ ConnectBegin
    \/ ConnectStep
    \/ ConnectPoses
    \/ Return

\* a running connect_armature goes on to its next round and to its pose pass
SpecConnect ==
    InitRig /\ [][NextConnect]_vars /\ WF_vars(ConnectStep) /\ WF_vars(ConnectPoses)

====
